---- MODULE Spec2Model ----
(***************************************************************************)
(* A model of the conversation translation and response normalization      *)
(* layer of the chat gateway:                                              *)
(*   - crates/gemini_streaming_client/src/conversion.rs (request builder,  *)
(*     tool-call correlation, schema simplifier, function-response         *)
(*     payloads),                                                          *)
(*   - crates/chat-cli/src/api_client/clients/streaming_client.rs          *)
(*     (StreamingClient::send_message, SendMessageOutput::recv).           *)
(*                                                                         *)
(* The specifications share the variables below:                           *)
(*   SpecPure   the pure functions of conversion.rs applied to inputs      *)
(*              drawn from bounded sets,                                   *)
(*   SpecBuild  conversation_state_to_gemini_request applied to            *)
(*              conversations a caller has accumulated,                    *)
(*   Spec       a StreamingClient (mock or REST backend), its              *)
(*              send_message calls and the recv calls on the handle,       *)
(*   SpecNew    StreamingClient::new: the selection of the backend and the *)
(*              loading of the REST backend's configuration file,          *)
(*              while others create, replace or remove that file.          *)
(***************************************************************************)
EXTENDS Integers, Sequences, FiniteSets, TLC

VARIABLES
    \* ---- SpecPure: one pure function and its successive results
    pfn,            \* which function is applied: "clean" | "payload" | "split" | "idle"
    pin,            \* the input drawn for it
    pout,           \* the results so far (for "clean": f(x), then f(f(x)))
    \* ---- SpecBuild: the arguments and the result of the request builder
    history,        \* &[MockChatMessage]: the past turns, in order
    built,          \* FALSE until conversation_state_to_gemini_request ran
    user_message,   \* the current user turn handed to the builder
    request,        \* the GeminiRequest it returned
    last_map,       \* tool_id_to_name as the latest build left it on return
    prior_map,      \* tool_id_to_name as the build before that one left it
    builds,         \* number of builds made so far
    \* ---- Spec: StreamingClient and the handle of its latest send_message
    inner,          \* the backend variant: Mock | Gemini | Codewhisperer | QDeveloper
    profile,        \* Option<AuthProfile>
    seeded,         \* the batches StreamingClient::mock was given
    queue,          \* what is left of the mock's IntoIter
    calls,          \* number of send_message calls made so far
    sent,           \* the ConversationState passed to the latest call
    conversions,    \* which historical messages of that call convert (try_into)
    posted,         \* the GeminiRequest handed to the REST client by the latest call
    reply,          \* what the backend call of the latest send came to, if made
    response,       \* the GeminiResponse of the latest REST call
    outcome,        \* result of the latest call: none | Ok | Err(error) | Panic
    failures,       \* the failed REST sends so far: class, client error, returned error
    handle,         \* SendMessageOutput of the latest call: [kind, vec]
    events,         \* the event list of that handle as materialized, un-reversed
    received,       \* every value recv returned on that handle, in order
    clock,          \* SystemTime::now() in milliseconds
    issued,         \* the tool-use ids the sends before the latest one generated
    \* ---- SpecNew: StreamingClient::new and what it reads
    config_file,    \* ~/.aws/amazonq/gemini_config.json as it is on disk
    environment,    \* Q_USE_SENDMESSAGE, in_cloudshell(), what the database holds
    pc,             \* where StreamingClient::new stands
    selected,       \* the constructor StreamingClient::new called, if any
    created,        \* the Result StreamingClient::new returned
    changes,        \* how often others changed the file since new was called
    \* ---- SpecMock: concurrent send_message calls on clones of one mock client
    mutex,          \* the Mutex around the shared IntoIter: its holder, if any
    callers,        \* per caller: where its send_message stands, new_events, result
    taken           \* history: which caller read which batch, in the order of the reads

pureVars  == <<pfn, pin, pout>>
buildVars == <<history, built, user_message, request, last_map, prior_map, builds>>
gwVars    == <<inner, profile, seeded, queue, calls, sent, conversions, posted,
               reply, response, outcome, failures, handle, events, received,
               clock, issued>>
newVars   == <<config_file, environment, pc, selected, created, changes>>
mockVars  == <<mutex, callers, taken>>
vars      == <<pfn, pin, pout, history, built, user_message, request,
               last_map, prior_map, builds,
               inner, profile, seeded, queue, calls, sent, conversions, posted,
               reply, response, outcome, failures, handle, events, received,
               clock, issued,
               config_file, environment, pc, selected, created, changes,
               mutex, callers, taken>>

----------------------------------------------------------------------------
(* Option<T> *)
None    == [some |-> FALSE]
Some(x) == [some |-> TRUE, val |-> x]

(* serde_json::Value.  An object is a function from its keys to values. *)
JNull     == [t |-> "null"]
JBool(b)  == [t |-> "bool", v |-> b]
JNum(n)   == [t |-> "num", v |-> n]
JStr(s)   == [t |-> "str", v |-> s]
JArr(a)   == [t |-> "arr", v |-> a]
JObj(o)   == [t |-> "obj", v |-> o]
EmptyMap  == [k \in {} |-> JNull]

is_object(j) == j.t = "obj"
is_array(j)  == j.t = "arr"
is_string(j) == j.t = "str"
Has(o, k)    == k \in DOMAIN o

(* Sequence helpers *)
Reverse(s) == [i \in 1..Len(s) |-> s[Len(s) + 1 - i]]
Last(s)    == s[Len(s)]
SeqsUpTo(S, n) == UNION {[1..k -> S] : k \in 0..n}

----------------------------------------------------------------------------
(***************************************************************************)
(* Schema simplifier: conversion.rs, clean_parameters_for_gemini and       *)
(* clean_array_items.                                                      *)
(***************************************************************************)

(* The "type" entry of a simplified property or items schema: the first    *)
(* element of an array of types (nothing when that array is empty), the    *)
(* value itself otherwise, "string" when the source has no "type".         *)
simplified_type(obj) ==
    IF Has(obj, "type")
    THEN IF is_array(obj["type"])
         THEN IF Len(obj["type"].v) > 0
              THEN "type" :> obj["type"].v[1]
              ELSE EmptyMap
         ELSE "type" :> obj["type"]
    ELSE "type" :> JStr("string")

(* if let Some(x) = obj.get(k) { simplified.insert(k, x.clone()) } *)
copied(obj, k) == IF Has(obj, k) THEN k :> obj[k] ELSE EmptyMap

(* Mutant: the source items are taken over as they are. *)
clean_array_items_verbatim(items) == items

clean_array_items(items) ==
    IF is_object(items)
    THEN JObj(copied(items.v, "enum") @@ copied(items.v, "description")
              @@ simplified_type(items.v))
    ELSE JObj("type" :> JStr("string"))

(* The "items" entry: only when the source "type" is the string "array". *)
simplified_items(prop_obj) ==
    IF Has(prop_obj, "type") /\ is_string(prop_obj["type"])
       /\ prop_obj["type"].v = "array"
    THEN IF Has(prop_obj, "items")
         THEN "items" :> clean_array_items(prop_obj["items"])
         ELSE "items" :> JObj("type" :> JStr("string"))
    ELSE EmptyMap

RECURSIVE clean_parameters_for_gemini(_)
RECURSIVE simplified_prop(_)

(* One property of "properties": the body of the loop over props_obj. *)
simplified_prop(prop_value) ==
    LET prop_obj == prop_value.v
        nested ==
            IF Has(prop_obj, "type") /\ is_string(prop_obj["type"])
               /\ prop_obj["type"].v = "object" /\ Has(prop_obj, "properties")
            THEN LET cleaned_props == clean_parameters_for_gemini(prop_value)
                 IN  copied(cleaned_props.v, "required")
                     @@ copied(cleaned_props.v, "properties")
            ELSE EmptyMap
    IN  JObj(nested @@ simplified_items(prop_obj) @@ copied(prop_obj, "enum")
             @@ copied(prop_obj, "description") @@ simplified_type(prop_obj))

clean_parameters_for_gemini(parameters) ==
    LET obj == parameters.v
        required ==
            IF is_object(parameters) /\ Has(obj, "required")
            THEN obj["required"]
            ELSE JArr(<<>>)
        properties ==
            IF is_object(parameters) /\ Has(obj, "properties")
               /\ is_object(obj["properties"])
            THEN LET props_obj == obj["properties"].v
                 IN  JObj([prop_name \in
                              {n \in DOMAIN props_obj : is_object(props_obj[n])}
                           |-> simplified_prop(props_obj[prop_name])])
            ELSE JObj(EmptyMap)
    IN  JObj([type |-> JStr("object"), properties |-> properties,
              required |-> required])

(***************************************************************************)
(* conversion.rs, split_text_into_chunks.  A text is the sequence of its   *)
(* chars, which is what the loop over text.chars() sees.                   *)
(***************************************************************************)
(* Mutant: a chunk is closed one character late. *)
chunk_is_full_late(current_size, chunk_size) == current_size > chunk_size

(* if current_size >= chunk_size *)
chunk_is_full(current_size, chunk_size) == current_size >= chunk_size

(* for char in text.chars() { ... }, then the rest that is not empty *)
RECURSIVE split_loop(_, _, _, _)
split_loop(chars, chunk_size, chunks, current_chunk) ==
    IF chars = <<>>
    THEN IF current_chunk # <<>> THEN Append(chunks, current_chunk) ELSE chunks
    ELSE LET pushed == Append(current_chunk, Head(chars))
             current_size == Len(pushed)
         IN  IF chunk_is_full(current_size, chunk_size)
             THEN split_loop(Tail(chars), chunk_size, Append(chunks, pushed), <<>>)
             ELSE split_loop(Tail(chars), chunk_size, chunks, pushed)

split_text_into_chunks(text, chunk_size) ==
    IF text = <<>> THEN << <<>> >>
    ELSE split_loop(text, chunk_size, <<>>, <<>>)

(***************************************************************************)
(* conversion.rs, tool_result_to_gemini_function_response: the payload is  *)
(* chosen by matching the status string against "success".                 *)
(***************************************************************************)
(* Mutant: every status gets the "result" payload. *)
tool_result_always_result(tool_use_id, content, status) ==
    [name |-> tool_use_id, response |-> JObj("result" :> content)]

tool_result_to_gemini_function_response(tool_use_id, content, status) ==
    LET response_value ==
            IF status = "success"
            THEN JObj("result" :> content)
            ELSE JObj("error" :> content)
    IN  [name |-> tool_use_id, response |-> response_value]


----------------------------------------------------------------------------
(***************************************************************************)
(* Request builder: conversion.rs, conversation_state_to_gemini_request.   *)
(***************************************************************************)
MaxOutputTokens == 4096

(* MockChatMessage, MockToolUse, MockToolResult, MockTool *)
UserMessage(content, tool_results) ==
    [kind |-> "UserMessage", content |-> content, tool_results |-> tool_results]
AssistantMessage(content, tool_uses) ==
    [kind |-> "AssistantMessage", content |-> content, tool_uses |-> tool_uses]
MockToolUse(name, args, tool_use_id) ==
    [name |-> name, args |-> args, tool_use_id |-> tool_use_id]
MockToolResult(tool_use_id, content, status) ==
    [tool_use_id |-> tool_use_id, content |-> content, status |-> status]
MockTool(name, description, parameters) ==
    [name |-> name, description |-> description, parameters |-> parameters]

(* GeminiPart and GeminiContent *)
TextPart(text) == [kind |-> "Text", text |-> text]
FunctionCallPart(name, args) ==
    [kind |-> "FunctionCall", function_call |-> [name |-> name, args |-> args]]
FunctionResponsePart(function_response) ==
    [kind |-> "FunctionResponse", function_response |-> function_response]
GeminiContent(role, part) == [role |-> Some(role), parts |-> <<part>>]

(* Mutant: the text entry is pushed whether or not the content is empty. *)
push_text_unchecked(contents, role, content) ==
    Append(contents, GeminiContent(role, TextPart(content)))

(* if !content.is_empty() { contents.push(text entry) } *)
push_text(contents, role, content) ==
    IF content # ""
    THEN Append(contents, GeminiContent(role, TextPart(content)))
    ELSE contents

(* Mutant: an unknown id resolves to the empty name (unwrap_or_default). *)
lookup_tool_name_or_default(tool_id_to_name, tool_use_id) ==
    IF tool_use_id \in DOMAIN tool_id_to_name
    THEN tool_id_to_name[tool_use_id]
    ELSE ""

(* tool_id_to_name.get(id).cloned().unwrap_or_else(|| id.clone()) *)
lookup_tool_name(tool_id_to_name, tool_use_id) ==
    IF tool_use_id \in DOMAIN tool_id_to_name
    THEN tool_id_to_name[tool_use_id]
    ELSE tool_use_id

(* Mutant: the first name registered under an id is kept (or_insert). *)
insert_tool_name_if_absent(tool_id_to_name, tool_use_id, name) ==
    tool_id_to_name @@ (tool_use_id :> name)

(* HashMap::insert: the new name replaces an older one under the same id. *)
insert_tool_name(tool_id_to_name, tool_use_id, name) ==
    (tool_use_id :> name) @@ tool_id_to_name

(* for result in tool_results { ... contents.push(function response) } *)
RECURSIVE push_tool_results(_, _, _)
push_tool_results(contents, tool_id_to_name, tool_results) ==
    IF tool_results = <<>> THEN contents
    ELSE LET result == Head(tool_results)
             tool_name == lookup_tool_name(tool_id_to_name, result.tool_use_id)
             function_response ==
                 tool_result_to_gemini_function_response(
                     tool_name, result.content, result.status)
         IN  push_tool_results(
                 Append(contents,
                        GeminiContent("user", FunctionResponsePart(function_response))),
                 tool_id_to_name, Tail(tool_results))

(* for tool_use in tool_uses { insert into the map; contents.push(call) } *)
RECURSIVE push_tool_uses(_, _)
push_tool_uses(st, tool_uses) ==
    IF tool_uses = <<>> THEN st
    ELSE LET tool_use == Head(tool_uses)
         IN  push_tool_uses(
                 [contents |->
                      Append(st.contents,
                             GeminiContent("model",
                                 FunctionCallPart(tool_use.name, tool_use.args))),
                  tool_id_to_name |->
                      insert_tool_name(st.tool_id_to_name,
                                       tool_use.tool_use_id, tool_use.name)],
                 Tail(tool_uses))

(* One iteration of the loop over all_messages. *)
process_message(st, message) ==
    IF message.kind = "UserMessage"
    THEN LET withText == push_text(st.contents, "user", message.content)
         IN  [contents |->
                  IF message.tool_results.some
                  THEN push_tool_results(withText, st.tool_id_to_name,
                                         message.tool_results.val)
                  ELSE withText,
              tool_id_to_name |-> st.tool_id_to_name]
    ELSE LET withText == [contents |-> push_text(st.contents, "model", message.content),
                          tool_id_to_name |-> st.tool_id_to_name]
         IN  IF message.tool_uses.some
             THEN push_tool_uses(withText, message.tool_uses.val)
             ELSE withText

RECURSIVE process_messages(_, _)
process_messages(st, all_messages) ==
    IF all_messages = <<>> THEN st
    ELSE process_messages(process_message(st, Head(all_messages)), Tail(all_messages))

(* Mutant: the current user message is processed before the history. *)
chain_messages_current_first(hist, um) == <<um>> \o hist

(* history.iter().chain(std::iter::once(user_message)) *)
chain_messages(hist, um) == hist \o <<um>>

tools_to_gemini_tools(tools) ==
    <<[function_declarations |->
         [i \in 1..Len(tools) |->
            [name |-> tools[i].name,
             description |-> tools[i].description,
             parameters |-> clean_parameters_for_gemini(tools[i].parameters)]]]>>

(* Mutant: the map outlives the call and the next build starts from it. *)
kept_tool_id_to_name == last_map

(* let mut tool_id_to_name = std::collections::HashMap::new(); *)
new_tool_id_to_name == EmptyMap

(* The map as it stands when the loop over all_messages is through. *)
final_tool_id_to_name(um, hist) ==
    process_messages([contents |-> <<>>, tool_id_to_name |-> new_tool_id_to_name],
                     chain_messages(hist, um)).tool_id_to_name

conversation_state_to_gemini_request(um, hist, tools, temperature) ==
    LET st == process_messages([contents |-> <<>>,
                                tool_id_to_name |-> new_tool_id_to_name],
                               chain_messages(hist, um))
    IN  [contents |-> st.contents,
         tools |-> IF tools.some THEN Some(tools_to_gemini_tools(tools.val)) ELSE None,
         generation_config |->
             Some([temperature |-> Some(temperature),
                   max_output_tokens |-> Some(MaxOutputTokens),
                   top_k |-> None, top_p |-> None])]

----------------------------------------------------------------------------
(***************************************************************************)
(* Gateway: streaming_client.rs, StreamingClient::send_message and         *)
(* SendMessageOutput::recv.                                                *)
(***************************************************************************)

(* ChatResponseStream *)
AssistantResponseEvent(content) ==
    [kind |-> "AssistantResponseEvent", content |-> content]
ToolUseEvent(tool_use_id, name, input, stop) ==
    [kind |-> "ToolUseEvent", tool_use_id |-> tool_use_id, name |-> name,
     input |-> input, stop |-> stop]

(* serde_json::to_string.  Object members are written in the order CHOOSE  *)
(* takes them; the objects serialized here have at most one member.        *)
RECURSIVE to_json_string(_)
RECURSIVE json_elements(_)
RECURSIVE json_members(_)
json_elements(a) ==
    IF a = <<>> THEN ""
    ELSE to_json_string(Head(a))
         \o (IF Len(a) > 1 THEN "," ELSE "") \o json_elements(Tail(a))
json_members(o) ==
    IF DOMAIN o = {} THEN ""
    ELSE LET k == CHOOSE x \in DOMAIN o : TRUE
             rest == [x \in DOMAIN o \ {k} |-> o[x]]
         IN  "\"" \o k \o "\":" \o to_json_string(o[k])
             \o (IF DOMAIN rest # {} THEN "," ELSE "") \o json_members(rest)
to_json_string(j) ==
    CASE j.t = "null" -> "null"
      [] j.t = "bool" -> (IF j.v THEN "true" ELSE "false")
      [] j.t = "num"  -> ToString(j.v)
      [] j.t = "str"  -> "\"" \o j.v \o "\""
      [] j.t = "arr"  -> "[" \o json_elements(j.v) \o "]"
      [] j.t = "obj"  -> "{" \o json_members(j.v) \o "}"

(* format!("{:?}", doc) of a Document: a string, not the document. *)
RECURSIVE debug_format(_)
RECURSIVE debug_elements(_)
RECURSIVE debug_members(_)
debug_elements(a) ==
    IF a = <<>> THEN ""
    ELSE debug_format(Head(a))
         \o (IF Len(a) > 1 THEN ", " ELSE "") \o debug_elements(Tail(a))
debug_members(o) ==
    IF DOMAIN o = {} THEN ""
    ELSE LET k == CHOOSE x \in DOMAIN o : TRUE
             rest == [x \in DOMAIN o \ {k} |-> o[x]]
         IN  "\"" \o k \o "\": " \o debug_format(o[k])
             \o (IF DOMAIN rest # {} THEN ", " ELSE "") \o debug_members(rest)
debug_format(j) ==
    CASE j.t = "null" -> "Null"
      [] j.t = "bool" -> "Bool(" \o (IF j.v THEN "true" ELSE "false") \o ")"
      [] j.t = "num"  -> "Number(PosInt(" \o ToString(j.v) \o "))"
      [] j.t = "str"  -> "String(\"" \o j.v \o "\")"
      [] j.t = "arr"  -> "Array([" \o debug_elements(j.v) \o "])"
      [] j.t = "obj"  -> "Object({" \o debug_members(j.v) \o "})"

(* ToolResultContentBlock *)
TextBlock(text) == [kind |-> "Text", text |-> text]
JsonBlock(doc)  == [kind |-> "Json", doc |-> doc]

(* ToolResultStatus -> the status string handed to the builder *)
status_string(status) == IF status = "Success" THEN "success" ELSE "error"

(* A tool result of a historical user turn: its first content block, a     *)
(* structured block as its debug text, Null when there is no block.        *)
history_tool_result(result) ==
    LET content ==
            IF result.content = <<>> THEN JNull
            ELSE IF Head(result.content).kind = "Text"
                 THEN JStr(Head(result.content).text)
                 ELSE JStr(debug_format(Head(result.content).doc))
    IN  MockToolResult(result.tool_use_id, content, status_string(result.status))

(* A tool result of the current turn: result.content[0], a structured      *)
(* block as its JSON value.  Indexing an empty content panics.             *)
current_tool_result_panics(result) == result.content = <<>>
current_tool_result(result) ==
    LET content_value ==
            IF result.content[1].kind = "Text"
            THEN JStr(result.content[1].text)
            ELSE result.content[1].doc
    IN  MockToolResult(result.tool_use_id, content_value, status_string(result.status))

(* user_input_message_context.as_ref().and_then(|ctx| ctx.tool_results.as_ref()) *)
context_tool_results(msg) ==
    IF msg.user_input_message_context.some
    THEN msg.user_input_message_context.val.tool_results
    ELSE None

context_tools(msg) ==
    IF msg.user_input_message_context.some
    THEN msg.user_input_message_context.val.tools
    ELSE None

gemini_tool_use(tool_use) ==
    MockToolUse(tool_use.name, tool_use.input, tool_use.tool_use_id)

(* ChatMessage -> MockChatMessage, for one historical message *)
gemini_history_message(msg) ==
    IF msg.kind = "UserInputMessage"
    THEN UserMessage(msg.content,
             IF context_tool_results(msg).some
             THEN LET results == context_tool_results(msg).val
                  IN  Some([i \in 1..Len(results) |-> history_tool_result(results[i])])
             ELSE None)
    ELSE AssistantMessage(msg.content,
             IF msg.tool_uses.some
             THEN LET tool_uses == msg.tool_uses.val
                  IN  Some([i \in 1..Len(tool_uses) |-> gemini_tool_use(tool_uses[i])])
             ELSE None)

gemini_history(hist) ==
    IF hist.some
    THEN [i \in 1..Len(hist.val) |-> gemini_history_message(hist.val[i])]
    ELSE <<>>

(* Tool::ToolSpecification -> MockTool; the schema is simplified here. *)
gemini_tool(spec) ==
    MockTool(spec.name, spec.description,
             IF spec.input_schema.json.some
             THEN clean_parameters_for_gemini(spec.input_schema.json.val)
             ELSE JObj(EmptyMap))

gemini_tools(user_input_message) ==
    IF context_tools(user_input_message).some
    THEN LET tools == context_tools(user_input_message).val
         IN  Some([i \in 1..Len(tools) |-> gemini_tool(tools[i])])
    ELSE None

mock_user_message_panics(user_input_message) ==
    /\ context_tool_results(user_input_message).some
    /\ \E i \in 1..Len(context_tool_results(user_input_message).val) :
          current_tool_result_panics(context_tool_results(user_input_message).val[i])

mock_user_message(user_input_message) ==
    UserMessage(user_input_message.content,
        IF context_tool_results(user_input_message).some
        THEN LET results == context_tool_results(user_input_message).val
             IN  Some([i \in 1..Len(results) |-> current_tool_result(results[i])])
        ELSE None)

gemini_request(conversation_state, temperature) ==
    conversation_state_to_gemini_request(
        mock_user_message(conversation_state.user_input_message),
        gemini_history(conversation_state.history),
        gemini_tools(conversation_state.user_input_message),
        temperature)

(* conversion.rs, generate_tool_use_id: "tool-" and the clock's milliseconds *)
generate_tool_use_id(now) == "tool-" \o ToString(now)

(* Mutant: a function call is announced and finished in one event. *)
part_events_single(part, now) ==
    CASE part.kind = "Text" -> <<AssistantResponseEvent(part.text)>>
      [] part.kind = "FunctionCall" ->
            <<ToolUseEvent(generate_tool_use_id(now), part.function_call.name,
                           Some(to_json_string(part.function_call.args)), Some(TRUE))>>
      [] part.kind = "FunctionResponse" -> <<>>

(* The events one part of the candidate's content is converted to. *)
part_events(part, now) ==
    CASE part.kind = "Text" -> <<AssistantResponseEvent(part.text)>>
      [] part.kind = "FunctionCall" ->
            LET tool_use_id == generate_tool_use_id(now)
                input == to_json_string(part.function_call.args)
            IN  <<ToolUseEvent(tool_use_id, part.function_call.name, None, None),
                  ToolUseEvent(tool_use_id, part.function_call.name,
                               Some(input), Some(TRUE))>>
      [] part.kind = "FunctionResponse" -> <<>>

(* for part in &candidate.content.parts: `times` holds the clock readings  *)
(* of the function-call parts, in order.                                   *)
RECURSIVE parts_events(_, _)
parts_events(parts, times) ==
    IF parts = <<>> THEN <<>>
    ELSE IF Head(parts).kind = "FunctionCall"
         THEN part_events(Head(parts), Head(times))
              \o parts_events(Tail(parts), Tail(times))
         ELSE part_events(Head(parts), 0) \o parts_events(Tail(parts), times)

(* response.candidates.first() *)
first_candidate_parts(resp) ==
    IF resp.candidates = <<>> THEN <<>> ELSE resp.candidates[1].content.parts

gemini_streams(resp, times) == parts_events(first_candidate_parts(resp), times)

(* Mutant: the list is handed over as it is. *)
not_reversed(streams) == streams

(* streams.reverse() / new_events.reverse(): the handle pops from the end. *)
reversed_for_pop(streams) == Reverse(streams)

(* Mutant: the next batch is read without being taken off the queue. *)
mock_peek_batch(q) ==
    [batch |-> IF q = <<>> THEN <<>> ELSE Head(q), rest |-> q]

(* events.lock().unwrap().next().unwrap_or_default() *)
mock_next_batch(q) ==
    IF q = <<>> THEN [batch |-> <<>>, rest |-> <<>>]
    ELSE [batch |-> Head(q), rest |-> Tail(q)]

(* Vec::pop: the last element, or None *)
vec_pop(vec) ==
    IF vec = <<>> THEN [value |-> None, rest |-> <<>>]
    ELSE [value |-> Some(Last(vec)), rest |-> SubSeq(vec, 1, Len(vec) - 1)]

----------------------------------------------------------------------------
(***************************************************************************)
(* Errors and configuration of the REST client: error.rs, config.rs.       *)
(***************************************************************************)

(* Result<T, E> *)
Ok(x)  == [ok |-> TRUE, val |-> x]
Err(e) == [ok |-> FALSE, err |-> e]

(* GeminiError: a kind and its message *)
GeminiError(kind, msg) == [kind |-> kind, msg |-> msg]

(* impl fmt::Display for GeminiError *)
gemini_error_fmt(e) ==
    CASE e.kind = "ConfigurationError" -> "Configuration error: " \o e.msg
      [] e.kind = "ApiError"           -> "API error: " \o e.msg
      [] e.kind = "SerializationError" -> "Serialization error: " \o e.msg
      [] e.kind = "HttpError"          -> "HTTP error: " \o e.msg
      [] e.kind = "RateLimitError"     -> "Rate limit error: " \o e.msg
      [] e.kind = "Other"              -> "Error: " \o e.msg

(* GeminiConfig; the temperature is held in tenths (7 is 0.7). *)
GeminiConfig(api_key, model, temperature) ==
    [api_key |-> api_key, model |-> model, temperature |-> temperature]

(* Text that is not JSON at all. *)
NotJson == [t |-> "invalid"]

(* serde_json::from_str::<GeminiConfig>: an object with the three fields   *)
(* of the right types; other members are ignored.                          *)
from_str(text) ==
    IF /\ is_object(text)
       /\ Has(text.v, "api_key") /\ is_string(text.v["api_key"])
       /\ Has(text.v, "model") /\ is_string(text.v["model"])
       /\ Has(text.v, "temperature") /\ text.v["temperature"].t = "num"
    THEN Ok(GeminiConfig(text.v["api_key"].v, text.v["model"].v,
                         text.v["temperature"].v))
    ELSE Err("invalid type or missing field")

(* Mutant: the temperature is checked from below only. *)
validate_config_no_upper_bound(config) ==
    IF config.api_key = ""
    THEN Err(GeminiError("ConfigurationError",
                         "Gemini API key is missing in configuration"))
    ELSE IF config.model = ""
    THEN Err(GeminiError("ConfigurationError",
                         "Gemini model is missing in configuration"))
    ELSE IF config.temperature < 0
    THEN Err(GeminiError("ConfigurationError",
                         "Invalid temperature value: " \o ToString(config.temperature)
                         \o ". Value should be between 0.0 and 1.0"))
    ELSE Ok(<<>>)

(* validate_config *)
validate_config(config) ==
    IF config.api_key = ""
    THEN Err(GeminiError("ConfigurationError",
                         "Gemini API key is missing in configuration"))
    ELSE IF config.model = ""
    THEN Err(GeminiError("ConfigurationError",
                         "Gemini model is missing in configuration"))
    ELSE IF config.temperature < 0 \/ config.temperature > 10
    THEN Err(GeminiError("ConfigurationError",
                         "Invalid temperature value: " \o ToString(config.temperature)
                         \o ". Value should be between 0.0 and 1.0"))
    ELSE Ok(<<>>)

(* Path::exists *)
exists(file) == file.kind # "absent"

(* fs::read_to_string: the text, or the io error *)
read_to_string(file) ==
    CASE file.kind = "absent"     -> Err("No such file or directory (os error 2)")
      [] file.kind = "unreadable" -> Err("Permission denied (os error 13)")
      [] file.kind = "text"       -> Ok(file.text)

(* load_config from fs::read_to_string on: read, parse, validate *)
load_config_read(file) ==
    LET config_content == read_to_string(file)
    IN  IF ~config_content.ok
        THEN Err(GeminiError("ConfigurationError",
                             "Failed to read Gemini configuration file: "
                             \o config_content.err))
        ELSE LET parsed == from_str(config_content.val)
             IN  IF ~parsed.ok
                 THEN Err(GeminiError("ConfigurationError",
                                      "Invalid Gemini configuration format: "
                                      \o parsed.err))
                 ELSE IF ~validate_config(parsed.val).ok
                      THEN Err(validate_config(parsed.val).err)
                      ELSE Ok(parsed.val)

(* load_config when config_path.exists() is false *)
load_config_not_found ==
    Err(GeminiError("ConfigurationError",
                    "Gemini configuration file not found at "
                    \o "\"~/.aws/amazonq/gemini_config.json\""))

(* ApiClientError: a variant and, where it has one, its message *)
ApiClientError(error, message) == [error |-> error, message |-> message]

(* new_gemini_client on the result of load_config *)
new_gemini_client(loaded) ==
    IF loaded.ok
    THEN Ok([inner |-> "Gemini", client |-> loaded.val, profile |-> None])
    ELSE Err(ApiClientError("ModelConfigurationError",
                            "Failed to load Gemini configuration: "
                            \o gemini_error_fmt(loaded.err)))

(* Mutant: an empty Q_USE_SENDMESSAGE counts as set. *)
use_sendmessage_if_set(env) ==
    env.in_cloudshell \/ env.q_use_sendmessage.some

(* in_cloudshell() || env::var("Q_USE_SENDMESSAGE").is_ok_and(|v| !v.is_empty()) *)
use_sendmessage(env) ==
    env.in_cloudshell \/ (env.q_use_sendmessage.some /\ env.q_use_sendmessage.val # "")

----------------------------------------------------------------------------
(***************************************************************************)
(* Backend calls and their failures: client.rs generate_content, and the   *)
(* enterprise arms of send_message.                                        *)
(***************************************************************************)

(* StatusCode as Display writes it *)
status_text(status) ==
    CASE status = 200 -> "200 OK"
      [] status = 404 -> "404 Not Found"
      [] status = 429 -> "429 Too Many Requests"
      [] status = 500 -> "500 Internal Server Error"

(* What the HTTP exchange of generate_content came to: the request could   *)
(* not be sent, or a status arrived with a body; `decoded` is the          *)
(* GeminiResponse the body parses to, None when it does not parse.         *)
SendFailed == [class |-> "send"]
HttpReply(status, body, decoded) ==
    [class |-> "reply", status |-> status, body |-> body, decoded |-> decoded]

(* StatusCode::is_success *)
is_success(status) == status >= 200 /\ status < 300

(* Client::generate_content *)
generate_content(http) ==
    IF http.class = "send"
    THEN Err(GeminiError("HttpError",
                         "Failed to send request: error sending request"))
    ELSE IF ~is_success(http.status)
    THEN Err(GeminiError("ApiError",
                         "API request failed with status "
                         \o status_text(http.status) \o ": " \o http.body))
    ELSE IF ~http.decoded.some
    THEN Err(GeminiError("SerializationError",
                         "Failed to parse response: error decoding response body"))
    ELSE Ok(http.decoded.val)

(* send_message, Gemini arm, Err(e) *)
gemini_send_error(e) ==
    ApiClientError("ModelRuntimeError",
                   "Gemini API request failed: " \o gemini_error_fmt(e))

(* The failure class of an HTTP exchange that generate_content reports. *)
failure_class(http) ==
    IF http.class = "send" THEN "send"
    ELSE IF ~is_success(http.status) THEN "status"
    ELSE "decode"

(* SdkError as the enterprise arms look at it: the raw response's status,  *)
(* if there is a raw response, and the service error's code and message,   *)
(* if it is a service error.                                               *)
SdkError(status, service) == [status |-> status, service |-> service]
ErrorMetadata(code, message) == [code |-> code, message |-> message]

(* e.raw_response().is_some_and(|resp| resp.status().as_u16() == 429) *)
is_quota_breach(e) == e.status.some /\ e.status.val = 429

(* Mutant: the code alone decides. *)
is_context_window_overflow_by_code(e) ==
    /\ e.service.some
    /\ e.service.val.code = Some("ValidationException")

(* e.as_service_error().is_some_and(code and message match) *)
is_context_window_overflow(e) ==
    /\ e.service.some
    /\ e.service.val.code = Some("ValidationException")
    /\ e.service.val.message = Some("Input is too long.")

(* send_message, Codewhisperer arm, Err(e) *)
codewhisperer_send_error(e) ==
    IF is_quota_breach(e)
    THEN ApiClientError("QuotaBreach", "quota has reached its limit")
    ELSE IF is_context_window_overflow(e)
    THEN ApiClientError("ContextWindowOverflow", "")
    ELSE ApiClientError("CodewhispererGenerateAssistantResponse", "")

(* send_message, QDeveloper arm: .send().await? *)
qdeveloper_send_error(e) ==
    ApiClientError("QDeveloperSendMessage", "")

(* i.try_into() for one historical message; whether it converts is decided *)
(* by the message's own conversion and is drawn with the conversation.     *)
try_into(msg, converts) ==
    IF converts THEN Ok([native |-> msg]) ELSE Err("BuildError")

(* Mutant: messages that do not convert are left out. *)
RECURSIVE collect_converted(_)
collect_converted(results) ==
    IF results = <<>> THEN Ok(<<>>)
    ELSE LET rest == collect_converted(Tail(results))
         IN  IF Head(results).ok
             THEN Ok(<<Head(results).val>> \o rest.val)
             ELSE rest

(* .collect::<Result<Vec<_>, _>>(): the first failure, or all the values *)
RECURSIVE collect_results(_)
collect_results(results) ==
    IF results = <<>> THEN Ok(<<>>)
    ELSE IF ~Head(results).ok THEN Err(Head(results).err)
    ELSE LET rest == collect_results(Tail(results))
         IN  IF rest.ok THEN Ok(<<Head(results).val>> \o rest.val) ELSE rest

(* history.map(|v| v.into_iter().map(|i| i.try_into()).collect()).transpose() *)
converted_history(hist, converts) ==
    IF hist.some
    THEN LET collected ==
                 collect_results([i \in 1..Len(hist.val) |->
                                     try_into(hist.val[i], converts[i])])
         IN  IF collected.ok THEN Ok(Some(collected.val)) ELSE collected
    ELSE Ok(None)

(* The conversation state the enterprise arms build, or the error of `?`. *)
enterprise_conversation_state(conversation_state, converts) ==
    LET hist == converted_history(conversation_state.history, converts)
    IN  IF hist.ok
        THEN Ok([conversation_id |-> conversation_state.conversation_id,
                 current_message |-> [native |-> conversation_state.user_input_message],
                 chat_trigger_type |-> "Manual",
                 history |-> hist.val])
        ELSE Err(ApiClientError("SmithyBuild", hist.err))

(* SendMessageOutput::request_id *)
request_id(output) ==
    CASE output.kind = "Codewhisperer" -> output.request_id
      [] output.kind = "QDeveloper"    -> output.request_id
      [] output.kind = "Gemini"        -> None
      [] output.kind = "Mock"          -> None

(* impl RequestId for SendMessageOutput *)
RequestId_request_id(output) ==
    CASE output.kind = "Codewhisperer" -> output.request_id
      [] output.kind = "QDeveloper"    -> output.request_id
      [] output.kind = "Gemini"        -> Some("<gemini-request-id>")
      [] output.kind = "Mock"          -> Some("<mock-request-id>")

----------------------------------------------------------------------------
(***************************************************************************)
(* SpecPure: inputs of the pure functions.                                 *)
(***************************************************************************)
MaxDepth == 1     \* nesting depth of object-typed properties in a schema
MaxApply == 2     \* how many times the simplifier is applied in a row

(* "type" of a property: absent, a string, an array of types, or empty. *)
TypeParts ==
    {EmptyMap}
    \cup {"type" :> ty : ty \in
            {JStr("string"), JStr("array"), JStr("object"),
             JArr(<<JStr("string"), JStr("null")>>),
             JArr(<<JStr("array"), JStr("null")>>),
             JArr(<<>>)}}

(* "items" of a property: absent, not an object, or an object. *)
ItemsParts ==
    {EmptyMap}
    \cup {"items" :> it : it \in
            {JStr("bad"),
             JObj(EmptyMap),
             JObj([type |-> JStr("integer"), minimum |-> JNum(1),
                   description |-> JStr("an item")]),
             JObj([type |-> JArr(<<JStr("number"), JStr("null")>>),
                   enum |-> JArr(<<JNum(1), JNum(2)>>)])}}

(* description, enum and keys the backend rejects. *)
ExtraParts ==
    {EmptyMap,
     [description |-> JStr("Path to file"), additionalProperties |-> JBool(FALSE),
      exclusiveMinimum |-> JBool(TRUE)],
     [enum |-> JArr(<<JStr("a"), JStr("b")>>), default |-> JStr("a")]}

LeafProps == {JObj(a @@ b @@ c) : a \in TypeParts, b \in ItemsParts, c \in ExtraParts}

(* What wraps the nested "properties" of an object-typed property. *)
ObjectParts ==
    {[type |-> JStr("object"), additionalProperties |-> JBool(FALSE)],
     [type |-> JStr("object"), required |-> JArr(<<JStr("q")>>)],
     [type |-> JArr(<<JStr("object"), JStr("null")>>)]}

RECURSIVE PropSchemas(_)
PropSchemas(d) ==
    IF d = 0 THEN LeafProps
    ELSE LeafProps
         \cup {JObj(("properties" :> JObj("q" :> c)) @@ w) :
                 c \in PropSchemas(d - 1), w \in ObjectParts}

(* A value of "properties": absent, malformed, or a mapping whose members  *)
(* may themselves be malformed (not objects).                              *)
PropertiesParts ==
    {EmptyMap, "properties" :> JStr("bad"), "properties" :> JObj(EmptyMap),
     "properties" :> JObj("p" :> JStr("bad"))}
    \cup {"properties" :> JObj("p" :> v) : v \in PropSchemas(MaxDepth)}
    \cup {"properties" :> JObj(("p" :> v) @@ ("n" :> JObj([type |-> JStr("integer"),
                                                           minimum |-> JNum(0)]))) :
            v \in PropSchemas(MaxDepth)}

RequiredParts ==
    {EmptyMap, "required" :> JArr(<<>>), "required" :> JArr(<<JStr("p")>>),
     "required" :> JStr("p")}

TopParts ==
    {EmptyMap,
     [type |-> JStr("object"), additionalProperties |-> JBool(FALSE),
      schema |-> JStr("http://json-schema.org/draft-07/schema#")]}

Schemas ==
    {JNull, JArr(<<>>), JStr("object"), JNum(1)}
    \cup {JObj(r @@ p @@ x) : r \in RequiredParts, p \in PropertiesParts, x \in TopParts}

MaxTextLen   == 5   \* chars of a text to split
MaxChunkSize == 3

Chars == {"a", "b"}

SplitInputs == [text : SeqsUpTo(Chars, MaxTextLen), chunk_size : 0..MaxChunkSize]

PayloadInputs ==
    [name : {"fs_read", "tool-123"},
     content : {JStr("This is the file content."), JNull,
                JObj("result" :> JStr("nested"))},
     status : {"success", "error", "Success", "", "failed"}]

BuildIdle ==
    /\ history = <<>>
    /\ built = FALSE
    /\ user_message = None
    /\ request = None
    /\ last_map = EmptyMap
    /\ prior_map = EmptyMap
    /\ builds = 0

GwIdle ==
    /\ inner = "idle"
    /\ profile = None
    /\ seeded = <<>>
    /\ queue = <<>>
    /\ calls = 0
    /\ sent = None
    /\ conversions = <<>>
    /\ posted = None
    /\ reply = None
    /\ response = None
    /\ outcome = [kind |-> "none"]
    /\ failures = {}
    /\ handle = None
    /\ events = <<>>
    /\ received = <<>>
    /\ clock = 0
    /\ issued = {}

MockIdle ==
    /\ mutex = None
    /\ callers = <<>>
    /\ taken = <<>>

NewIdle ==
    /\ config_file = [kind |-> "absent"]
    /\ environment = [kind |-> "idle"]
    /\ pc = "idle"
    /\ selected = None
    /\ created = None
    /\ changes = 0

PureIdle ==
    /\ pfn = "idle"
    /\ pin = None
    /\ pout = <<>>

PureInit ==
    /\ \/ pfn = "clean" /\ pin \in Schemas
       \/ pfn = "payload" /\ pin \in PayloadInputs
       \/ pfn = "split" /\ pin \in SplitInputs
    /\ pout = <<>>
    /\ BuildIdle
    /\ GwIdle
    /\ NewIdle
    /\ MockIdle

(* clean_parameters_for_gemini applied to the input, then to its own result. *)
CleanApply ==
    /\ pfn = "clean"
    /\ Len(pout) < MaxApply
    /\ pout' = Append(pout, clean_parameters_for_gemini(
                                IF pout = <<>> THEN pin ELSE Last(pout)))
    /\ UNCHANGED <<pfn, pin>>
    /\ UNCHANGED buildVars
    /\ UNCHANGED gwVars
    /\ UNCHANGED newVars
    /\ UNCHANGED mockVars

PayloadApply ==
    /\ pfn = "payload"
    /\ pout = <<>>
    /\ pout' = <<tool_result_to_gemini_function_response(
                     pin.name, pin.content, pin.status)>>
    /\ UNCHANGED <<pfn, pin>>
    /\ UNCHANGED buildVars
    /\ UNCHANGED gwVars
    /\ UNCHANGED newVars
    /\ UNCHANGED mockVars

SplitApply ==
    /\ pfn = "split"
    /\ pout = <<>>
    /\ pout' = <<split_text_into_chunks(pin.text, pin.chunk_size)>>
    /\ UNCHANGED <<pfn, pin>>
    /\ UNCHANGED buildVars
    /\ UNCHANGED gwVars
    /\ UNCHANGED newVars
    /\ UNCHANGED mockVars

PureNext == CleanApply \/ PayloadApply \/ SplitApply

SpecPure == PureInit /\ [][PureNext]_vars

----------------------------------------------------------------------------
(***************************************************************************)
(* Claims settled under SpecPure.                                          *)
(***************************************************************************)

(* C6: the payload built for a tool result is exactly the one-key object   *)
(* {"result": content} when the status is "success" and exactly the        *)
(* one-key object {"error": content} when the status is "error"; for every *)
(* content and every status string no other shape is produced.             *)
C6_PayloadShape ==
    (pfn = "payload" /\ pout # <<>>) =>
        LET r == pout[1].response
        IN  /\ is_object(r)
            /\ pin.status = "success" =>
                  (DOMAIN r.v = {"result"} /\ r.v["result"] = pin.content)
            /\ pin.status = "error" =>
                  (DOMAIN r.v = {"error"} /\ r.v["error"] = pin.content)
            /\ \/ DOMAIN r.v = {"result"} /\ r.v["result"] = pin.content
               \/ DOMAIN r.v = {"error"} /\ r.v["error"] = pin.content
            /\ pout[1].name = pin.name

C6_Witness ==
    /\ pfn = "payload"
    /\ pout # <<>>
    /\ pin.status = "error"
    /\ pin.content = JStr("This is the file content.")
    /\ pout[1].response = JObj("error" :> JStr("This is the file content."))

(* C9: the simplifier is idempotent: applying it to its own result gives   *)
(* that result back, for every input.                                      *)
C9_Idempotent ==
    (pfn = "clean" /\ Len(pout) >= 2) => pout[2] = pout[1]

(* C10: for every input the simplifier returns an object with exactly the  *)
(* keys type, properties and required, where type is "object", properties  *)
(* is a mapping, and required is an array equal to the input's required    *)
(* if present and empty otherwise.                                         *)
C10_TotalShape ==
    (pfn = "clean" /\ Len(pout) >= 1) =>
        LET o == pout[1]
        IN  /\ is_object(o)
            /\ DOMAIN o.v = {"type", "properties", "required"}
            /\ o.v["type"] = JStr("object")
            /\ is_object(o.v["properties"])
            /\ is_array(o.v["required"])
            /\ o.v["required"] =
                  (IF is_object(pin) /\ Has(pin.v, "required")
                   THEN pin.v["required"] ELSE JArr(<<>>))

----------------------------------------------------------------------------
(***************************************************************************)
(* SpecBuild: a caller accumulates a history, turn by turn, and then has   *)
(* the request built for it and a current user message.                    *)
(***************************************************************************)
MaxEntries == 5   \* turns plus tool uses plus tool results of a conversation

Contents == {"", "Hi there"}

FileArgs == JObj("path" :> JStr("test.txt"))

ToolUses ==
    {MockToolUse("fs_read", FileArgs, "tool-123"),
     MockToolUse("fs_write", FileArgs, "tool-123"),
     MockToolUse("fs_read", JObj("path" :> JStr("another.txt")), "tool-456")}

ToolResults ==
    {MockToolResult("tool-123", JStr("This is the file content."), "success"),
     MockToolResult("tool-456", JStr("File not found"), "error")}

BuildTools ==
    {None,
     Some(<<MockTool("test_tool", "A test tool",
                     JObj([type |-> JStr("object"),
                           properties |->
                               JObj("param1" :>
                                    JObj([type |-> JStr("string"),
                                          description |-> JStr("A parameter")]))]))>>)}

Temperatures == {7}    \* tenths: 0.7

(* Option<Vec<T>> with at most n elements. *)
OptionalLists(S, n) ==
    {None} \cup {Some(l) : l \in SeqsUpTo(S, IF n < 0 THEN 0 ELSE n)}

ToolList(m) ==
    IF m.kind = "UserMessage"
    THEN (IF m.tool_results.some THEN m.tool_results.val ELSE <<>>)
    ELSE (IF m.tool_uses.some THEN m.tool_uses.val ELSE <<>>)

RECURSIVE EntriesIn(_)
EntriesIn(msgs) ==
    IF msgs = <<>> THEN 0
    ELSE 1 + Len(ToolList(Head(msgs))) + EntriesIn(Tail(msgs))

(* What a further history turn may hold: the current turn needs one entry. *)
Room == MaxEntries - 1 - EntriesIn(history)

BuildInit ==
    /\ history = <<>>
    /\ built = FALSE
    /\ user_message = None
    /\ request = None
    /\ last_map = EmptyMap
    /\ prior_map = EmptyMap
    /\ builds = 0
    /\ PureIdle
    /\ GwIdle
    /\ NewIdle
    /\ MockIdle

PushUserTurn ==
    /\ ~built
    /\ Room >= 1
    /\ \E content \in Contents, tool_results \in OptionalLists(ToolResults, Room - 1) :
          history' = Append(history, UserMessage(content, tool_results))
    /\ UNCHANGED <<built, user_message, request, last_map, prior_map, builds>>
    /\ UNCHANGED pureVars
    /\ UNCHANGED gwVars
    /\ UNCHANGED newVars
    /\ UNCHANGED mockVars

PushAssistantTurn ==
    /\ ~built
    /\ Room >= 1
    /\ \E content \in Contents, tool_uses \in OptionalLists(ToolUses, Room - 1) :
          history' = Append(history, AssistantMessage(content, tool_uses))
    /\ UNCHANGED <<built, user_message, request, last_map, prior_map, builds>>
    /\ UNCHANGED pureVars
    /\ UNCHANGED gwVars
    /\ UNCHANGED newVars
    /\ UNCHANGED mockVars

BuildRequest ==
    /\ ~built
    /\ \E content \in Contents, tool_results \in OptionalLists(ToolResults, Room),
          tools \in BuildTools, temperature \in Temperatures :
          LET um == UserMessage(content, tool_results)
          IN  /\ user_message' = Some(um)
              /\ request' = Some(conversation_state_to_gemini_request(
                                     um, history, tools, temperature))
              /\ last_map' = final_tool_id_to_name(um, history)
    /\ prior_map' = last_map
    /\ builds' = builds + 1
    /\ built' = TRUE
    /\ UNCHANGED history
    /\ UNCHANGED pureVars
    /\ UNCHANGED gwVars
    /\ UNCHANGED newVars
    /\ UNCHANGED mockVars

BuildNext == PushUserTurn \/ PushAssistantTurn \/ BuildRequest

SpecBuild == BuildInit /\ [][BuildNext]_vars

(***************************************************************************)
(* SpecRebuild: the builder called again, for another conversation.        *)
(***************************************************************************)
MaxBuilds == 2
MaxTurns  == 2   \* turns of a history handed to a build, each with one tool entry

RebuildTurns ==
    {AssistantMessage("", Some(<<use>>)) : use \in ToolUses}
    \cup {UserMessage("", Some(<<result>>)) : result \in ToolResults}

RebuildHistories == SeqsUpTo(RebuildTurns, MaxTurns)

RebuildInit ==
    /\ history \in RebuildHistories
    /\ built = FALSE
    /\ user_message = None
    /\ request = None
    /\ last_map = EmptyMap
    /\ prior_map = EmptyMap
    /\ builds = 0
    /\ PureIdle
    /\ GwIdle
    /\ NewIdle
    /\ MockIdle

(* The caller turns to another conversation and will call the builder with *)
(* its history; nothing of the previous call is passed along.              *)
NextConversation ==
    /\ built
    /\ builds < MaxBuilds
    /\ history' \in RebuildHistories
    /\ built' = FALSE
    /\ user_message' = None
    /\ request' = None
    /\ UNCHANGED <<last_map, prior_map, builds>>
    /\ UNCHANGED pureVars
    /\ UNCHANGED gwVars
    /\ UNCHANGED newVars
    /\ UNCHANGED mockVars

RebuildNext == BuildRequest \/ NextConversation

SpecRebuild == RebuildInit /\ [][RebuildNext]_vars

----------------------------------------------------------------------------
(***************************************************************************)
(* Claims settled under SpecBuild.  A built request is compared with the   *)
(* conversation it was built from, position by position.                   *)
(***************************************************************************)
AllMessages == history \o <<user_message.val>>
BuiltContents == request.val.contents
RoleOf(m) == IF m.kind = "UserMessage" THEN "user" ELSE "model"
TextCount(m) == IF m.content # "" THEN 1 ELSE 0

(* Offsets(msgs)[i]: the number of entries the messages before the i-th    *)
(* stand for; the last element is the number of entries of all of them.    *)
RECURSIVE OffsetsFrom(_, _)
OffsetsFrom(msgs, n) ==
    IF msgs = <<>> THEN <<n>>
    ELSE <<n>> \o OffsetsFrom(Tail(msgs),
                              n + TextCount(Head(msgs)) + Len(ToolList(Head(msgs))))
Offsets(msgs) == OffsetsFrom(msgs, 0)

(* The tool results of the conversation, as <<message, index>>. *)
ResultPlaces(msgs) ==
    UNION {{<<i, j>> : j \in 1..Len(ToolList(msgs[i]))} :
             i \in {x \in 1..Len(msgs) : msgs[x].kind = "UserMessage"}}

(* The tool uses with this id among the messages numbered in `range`. *)
UsesIn(msgs, range, id) ==
    UNION {{<<i, j>> : j \in {y \in 1..Len(ToolList(msgs[i])) :
                                 ToolList(msgs[i])[y].tool_use_id = id}} :
             i \in {x \in range : msgs[x].kind = "AssistantMessage"}}

LatestOf(places) ==
    CHOOSE u \in places :
        \A w \in places : w[1] < u[1] \/ (w[1] = u[1] /\ w[2] <= u[2])

IsFunctionResponseAt(c, k) ==
    /\ k \in 1..Len(c)
    /\ Len(c[k].parts) = 1
    /\ c[k].parts[1].kind = "FunctionResponse"

KindCount(c, kind) ==
    Cardinality({k \in 1..Len(c) : \E p \in 1..Len(c[k].parts) : c[k].parts[p].kind = kind})

(* C4: a function-response entry built from a tool result whose id matches *)
(* a tool use earlier in the conversation carries the name of that tool    *)
(* use; of several earlier uses with the id, the latest gives the name.    *)
C4_NameOfLatestUse ==
    built =>
        LET msgs == AllMessages
            c    == BuiltContents
            offs == Offsets(msgs)
        IN  \A pl \in ResultPlaces(msgs) :
                LET result == ToolList(msgs[pl[1]])[pl[2]]
                    prior  == UsesIn(msgs, 1..(pl[1] - 1), result.tool_use_id)
                    k      == offs[pl[1]] + TextCount(msgs[pl[1]]) + pl[2]
                IN  prior # {} =>
                      /\ IsFunctionResponseAt(c, k)
                      /\ LET u == LatestOf(prior)
                         IN  c[k].parts[1].function_response.name
                                = ToolList(msgs[u[1]])[u[2]].name

C4_Witness ==
    /\ built
    /\ LET msgs == AllMessages
           c    == BuiltContents
           offs == Offsets(msgs)
       IN  \E pl \in ResultPlaces(msgs) :
              LET result == ToolList(msgs[pl[1]])[pl[2]]
                  prior  == UsesIn(msgs, 1..(pl[1] - 1), result.tool_use_id)
                  k      == offs[pl[1]] + TextCount(msgs[pl[1]]) + pl[2]
              IN  /\ \E u, w \in prior :
                        ToolList(msgs[u[1]])[u[2]].name # ToolList(msgs[w[1]])[w[2]].name
                  /\ result.tool_use_id = "tool-123"
                  /\ IsFunctionResponseAt(c, k)
                  /\ c[k].parts[1].function_response.name = "fs_write"

(* C5: a tool result whose id matches no tool use before it (also when a   *)
(* use with the id comes only later) yields a function-response entry      *)
(* named by the raw id; the request is built and no result is dropped.     *)
C5_FallbackToId ==
    built =>
        LET msgs == AllMessages
            c    == BuiltContents
            offs == Offsets(msgs)
        IN  /\ request.some
            /\ KindCount(c, "FunctionResponse") = Cardinality(ResultPlaces(msgs))
            /\ \A pl \in ResultPlaces(msgs) :
                  LET result == ToolList(msgs[pl[1]])[pl[2]]
                      k      == offs[pl[1]] + TextCount(msgs[pl[1]]) + pl[2]
                  IN  UsesIn(msgs, 1..(pl[1] - 1), result.tool_use_id) = {} =>
                        /\ IsFunctionResponseAt(c, k)
                        /\ c[k].parts[1].function_response.name = result.tool_use_id

C5_Witness ==
    /\ built
    /\ LET msgs == AllMessages
           c    == BuiltContents
           offs == Offsets(msgs)
       IN  \E pl \in ResultPlaces(msgs) :
              LET result == ToolList(msgs[pl[1]])[pl[2]]
                  k      == offs[pl[1]] + TextCount(msgs[pl[1]]) + pl[2]
              IN  /\ UsesIn(msgs, 1..(pl[1] - 1), result.tool_use_id) = {}
                  /\ UsesIn(msgs, (pl[1] + 1)..Len(msgs), result.tool_use_id) # {}
                  /\ IsFunctionResponseAt(c, k)
                  /\ c[k].parts[1].function_response.name = "tool-456"

(* The texts of the text parts of the contents, in order. *)
RECURSIVE TextsOf(_)
TextsOf(c) ==
    IF c = <<>> THEN <<>>
    ELSE (IF Head(c).parts[1].kind = "Text" THEN <<Head(c).parts[1].text>> ELSE <<>>)
         \o TextsOf(Tail(c))

(* The non-empty contents of the turns, in order. *)
RECURSIVE NonEmptyContents(_)
NonEmptyContents(msgs) ==
    IF msgs = <<>> THEN <<>>
    ELSE (IF Head(msgs).content # "" THEN <<Head(msgs).content>> ELSE <<>>)
         \o NonEmptyContents(Tail(msgs))

(* C7: a turn with empty content yields no text entry, a turn with         *)
(* non-empty content exactly one, holding that content; no text part of a  *)
(* request has empty text.                                                 *)
C7_TextEntries ==
    built =>
        LET msgs == AllMessages
            c    == BuiltContents
            offs == Offsets(msgs)
        IN  /\ \A k \in 1..Len(c) :
                  /\ Len(c[k].parts) = 1
                  /\ c[k].parts[1].kind = "Text" => c[k].parts[1].text # ""
            /\ TextsOf(c) = NonEmptyContents(msgs)
            /\ \A i \in 1..Len(msgs) :
                  msgs[i].content # "" =>
                      /\ offs[i] + 1 <= Len(c)
                      /\ c[offs[i] + 1].parts = <<TextPart(msgs[i].content)>>

C7_Witness ==
    /\ built
    /\ Len(history) = 2
    /\ history[1].content = "Hi there"
    /\ history[2].content = ""
    /\ Len(ToolList(history[2])) = 1
    /\ user_message.val.content = ""
    /\ TextsOf(BuiltContents) = <<"Hi there">>
    /\ Len(BuiltContents) = 2

(* C8: the contents follow the conversation: history in order, the current *)
(* user message last; within a message the text entry first, then its tool *)
(* entries in list order; role "user" for user turns and "model" for       *)
(* assistant turns; as many entries as non-empty turns, tool uses and tool *)
(* results together.                                                       *)
C8_ChronologicalOrder ==
    built =>
        LET msgs == AllMessages
            c    == BuiltContents
            offs == Offsets(msgs)
        IN  /\ Len(c) = Last(offs)
            /\ \A i \in 1..Len(msgs) :
                  LET m == msgs[i]
                  IN  /\ m.content # "" =>
                            c[offs[i] + 1]
                                = [role |-> Some(RoleOf(m)), parts |-> <<TextPart(m.content)>>]
                      /\ \A j \in 1..Len(ToolList(m)) :
                            LET e == c[offs[i] + TextCount(m) + j]
                                t == ToolList(m)[j]
                            IN  /\ e.role = Some(RoleOf(m))
                                /\ Len(e.parts) = 1
                                /\ IF m.kind = "UserMessage"
                                   THEN /\ e.parts[1].kind = "FunctionResponse"
                                        /\ \E key \in DOMAIN e.parts[1].function_response.response.v :
                                              e.parts[1].function_response.response.v[key] = t.content
                                   ELSE e.parts[1] = FunctionCallPart(t.name, t.args)

C8_Witness ==
    /\ built
    /\ Len(history) = 1
    /\ history[1].kind = "AssistantMessage"
    /\ history[1].content = "Hi there"
    /\ Len(ToolList(history[1])) = 2
    /\ ToolList(history[1])[1] # ToolList(history[1])[2]
    /\ user_message.val.content = "Hi there"
    /\ Len(BuiltContents) = 4
    /\ [k \in 1..4 |-> BuiltContents[k].role.val] = <<"model", "model", "model", "user">>
    /\ BuiltContents[2].parts[1] = FunctionCallPart(ToolList(history[1])[1].name,
                                                    ToolList(history[1])[1].args)

----------------------------------------------------------------------------
(***************************************************************************)
(* Spec: a StreamingClient built by StreamingClient::mock or around the    *)
(* REST client, a sequence of send_message calls made one after another,   *)
(* and recv calls on the handle the latest call returned.                  *)
(***************************************************************************)
MaxBatches    == 2   \* batches the mock is seeded with
MaxBatchLen   == 2   \* events of one batch
MaxCalls      == 3   \* send_message calls
MaxParts      == 2   \* parts of the first candidate of a REST response
MaxCandidates == 2   \* candidates of a REST response
MaxClock      == 1   \* milliseconds the clock may reach
MaxExtraRecv  == 2   \* recv calls after the handle is exhausted

(* api_client::model *)
UserInputMessage(content, context) ==
    [kind |-> "UserInputMessage", content |-> content,
     user_input_message_context |-> context]
AssistantResponseMessage(content, tool_uses) ==
    [kind |-> "AssistantResponseMessage", content |-> content,
     message_id |-> None, tool_uses |-> tool_uses]
ToolResult(tool_use_id, content, status) ==
    [tool_use_id |-> tool_use_id, content |-> content, status |-> status]
ToolUse(tool_use_id, name, input) ==
    [tool_use_id |-> tool_use_id, name |-> name, input |-> input]
ToolSpecification(name, description, json) ==
    [name |-> name, description |-> description, input_schema |-> [json |-> json]]
MessageContext(tool_results, tools) ==
    [tool_results |-> tool_results, tools |-> tools]
ConversationState(conversation_id, user_input_message, hist) ==
    [conversation_id |-> conversation_id,
     user_input_message |-> user_input_message, history |-> hist]

ConvHello ==
    ConversationState(None, UserInputMessage("Hello", None), None)

ConvTools ==
    ConversationState(Some("conv-1"),
        UserInputMessage("",
            Some(MessageContext(
                Some(<<ToolResult("tool-123",
                                  <<TextBlock("This is the file content.")>>,
                                  "Success")>>),
                Some(<<ToolSpecification("fs_read", "Reads a file",
                         Some(JObj([type |-> JStr("object"),
                                    properties |->
                                        JObj("path" :> JObj([type |->
                                                 JArr(<<JStr("string"), JStr("null")>>)])
                                             @@ "lines" :> JObj([type |->
                                                 JArr(<<JStr("array"), JStr("null")>>),
                                                 items |->
                                                     JObj([type |-> JStr("integer")])]))])))>>)))),
        Some(<<UserInputMessage("Can you read my file?", None),
               AssistantResponseMessage("I'll help you read that file.",
                   Some(<<ToolUse("tool-123", "fs_read", FileArgs)>>))>>))

ConvJson ==
    ConversationState(None,
        UserInputMessage("What's next?",
            Some(MessageContext(
                Some(<<ToolResult("tool-456",
                                  <<JsonBlock(JObj("code" :> JNum(2)))>>,
                                  "Error")>>),
                None))),
        Some(<<AssistantResponseMessage("",
                   Some(<<ToolUse("tool-456", "fs_write", FileArgs)>>)),
               UserInputMessage("",
                   Some(MessageContext(
                       Some(<<ToolResult("tool-456",
                                         <<JsonBlock(JObj("code" :> JNum(2)))>>,
                                         "Error")>>),
                       None)))>>))

ConvNoBlock ==
    ConversationState(None,
        UserInputMessage("",
            Some(MessageContext(Some(<<ToolResult("tool-123", <<>>, "Success")>>), None))),
        None)

Conversations == {ConvHello, ConvTools, ConvJson, ConvNoBlock}

MockEvents ==
    {AssistantResponseEvent("Hello!"), AssistantResponseEvent(" How can I")}

Batches == SeqsUpTo(MockEvents, MaxBatchLen)

ResponseParts ==
    {TextPart("Hello!"), TextPart(" How can I"),
     FunctionCallPart("fs_read", FileArgs),
     FunctionCallPart("fs_write", JNull),
     FunctionResponsePart([name |-> "fs_read",
                           response |-> JObj("result" :> JStr("x"))])}

GeminiCandidate(parts) == [content |-> [role |-> Some("model"), parts |-> parts]]

OtherCandidates == {GeminiCandidate(<<TextPart("another answer")>>)}

Responses ==
    {[candidates |-> <<>>]}
    \cup {[candidates |-> <<GeminiCandidate(parts)>> \o others] :
            parts \in SeqsUpTo(ResponseParts, MaxParts),
            others \in SeqsUpTo(OtherCandidates, MaxCandidates - 1)}

(* The HTTP exchanges of generate_content: failures of the three classes   *)
(* and the answers that decode.                                            *)
GeminiFailures ==
    {SendFailed,
     HttpReply(429, "quota", None),
     HttpReply(500, "Unknown error", None),
     HttpReply(200, "not a response", None)}

GeminiAnswers == {HttpReply(200, "candidates", Some(resp)) : resp \in Responses}

(* What the enterprise backends answer: an output with or without a        *)
(* request id, or an SdkError.                                             *)
EnterpriseOutputs == {[request_id |-> None], [request_id |-> Some("req-1")]}

ServiceErrors ==
    {ErrorMetadata(code, message) :
        code \in {Some("ValidationException"), Some("ThrottlingException")},
        message \in {Some("Input is too long."), Some("Input is too long"), None}}

SdkErrors ==
    {SdkError(None, None)}
    \cup {SdkError(Some(status), service) :
            status \in {400, 429, 500},
            service \in {None} \cup {Some(err) : err \in ServiceErrors}}

EnterpriseReplies == {Ok(out) : out \in EnterpriseOutputs} \cup {Err(e) : e \in SdkErrors}

ClientTemperature == 7   \* tenths: the temperature of the loaded configuration

FunctionCallCount(parts) ==
    Cardinality({i \in 1..Len(parts) : parts[i].kind = "FunctionCall"})

(* The tool-use ids a list of events carries. *)
tool_use_ids(streams) ==
    {streams[i].tool_use_id : i \in {j \in 1..Len(streams) : streams[j].kind = "ToolUseEvent"}}

(* Clock readings of n successive calls, the first not before `from`. *)
Readings(from, n) ==
    {ts \in [1..n -> from..MaxClock] : \A i \in 1..(n - 1) : ts[i] <= ts[i + 1]}

(* Which historical messages convert, for a history of this conversation. *)
Conversions(conversation_state) ==
    IF conversation_state.history.some
    THEN [1..Len(conversation_state.history.val) -> BOOLEAN]
    ELSE {<<>>}

Init ==
    /\ inner \in {"Mock", "Gemini", "Codewhisperer", "QDeveloper"}
    /\ profile \in (IF inner = "Codewhisperer"
                    THEN {None, Some([arn |-> "arn:profile"])} ELSE {None})
    /\ seeded \in (IF inner = "Mock" THEN SeqsUpTo(Batches, MaxBatches) ELSE {<<>>})
    /\ queue = seeded
    /\ calls = 0
    /\ sent = None
    /\ conversions = <<>>
    /\ posted = None
    /\ reply = None
    /\ response = None
    /\ outcome = [kind |-> "none"]
    /\ failures = {}
    /\ handle = None
    /\ events = <<>>
    /\ received = <<>>
    /\ clock = 0
    /\ issued = {}
    /\ PureIdle
    /\ BuildIdle
    /\ NewIdle
    /\ MockIdle

(* send_message, Inner::Mock arm *)
MockSend ==
    /\ inner = "Mock"
    /\ calls < MaxCalls
    /\ \E conversation_state \in Conversations :
          sent' = Some(conversation_state)
    /\ LET next == mock_next_batch(queue)
       IN  /\ queue' = next.rest
           /\ events' = next.batch
           /\ handle' = Some([kind |-> "Mock", vec |-> reversed_for_pop(next.batch)])
    /\ outcome' = [kind |-> "Ok"]
    /\ received' = <<>>
    /\ calls' = calls + 1
    /\ UNCHANGED <<inner, profile, seeded, conversions, posted, reply, response,
                   failures, clock, issued>>
    /\ UNCHANGED pureVars
    /\ UNCHANGED buildVars
    /\ UNCHANGED newVars
    /\ UNCHANGED mockVars

(* send_message, Inner::Gemini arm up to client.generate_content(request): *)
(* the conversation is converted and the request handed to the REST        *)
(* client; the caller is suspended in send_message until it answers.       *)
GeminiPost ==
    /\ inner = "Gemini"
    /\ calls < MaxCalls
    /\ outcome.kind # "Awaiting"
    /\ \E conversation_state \in Conversations :
          /\ ~mock_user_message_panics(conversation_state.user_input_message)
          /\ sent' = Some(conversation_state)
          /\ posted' = Some(gemini_request(conversation_state, ClientTemperature))
    /\ outcome' = [kind |-> "Awaiting"]
    /\ reply' = None
    /\ response' = None
    /\ handle' = None
    /\ events' = <<>>
    /\ received' = <<>>
    /\ calls' = calls + 1
    /\ issued' = issued \cup tool_use_ids(events)
    /\ UNCHANGED <<inner, profile, seeded, queue, conversions, failures, clock>>
    /\ UNCHANGED pureVars
    /\ UNCHANGED buildVars
    /\ UNCHANGED newVars
    /\ UNCHANGED mockVars

(* send_message, Inner::Gemini arm, Ok(response): the first candidate's    *)
(* parts become events, the list is reversed and handed out.               *)
GeminiReplyOk ==
    /\ inner = "Gemini"
    /\ outcome.kind = "Awaiting"
    /\ \E http \in GeminiAnswers :
          LET resp == generate_content(http).val
          IN  /\ generate_content(http).ok
              /\ \E times \in Readings(clock,
                                       FunctionCallCount(first_candidate_parts(resp))) :
                    LET streams == gemini_streams(resp, times)
                    IN  /\ events' = streams
                        /\ handle' = Some([kind |-> "Gemini",
                                           vec |-> reversed_for_pop(streams)])
                        /\ clock' = IF times = <<>> THEN clock ELSE Last(times)
              /\ reply' = Some(http)
              /\ response' = Some(resp)
    /\ outcome' = [kind |-> "Ok"]
    /\ received' = <<>>
    /\ UNCHANGED <<inner, profile, seeded, queue, calls, sent, conversions, posted,
                   failures, issued>>
    /\ UNCHANGED pureVars
    /\ UNCHANGED buildVars
    /\ UNCHANGED newVars
    /\ UNCHANGED mockVars

(* send_message, Inner::Gemini arm, Err(e): generate_content fails *)
GeminiReplyErr ==
    /\ inner = "Gemini"
    /\ outcome.kind = "Awaiting"
    /\ \E http \in GeminiFailures :
          LET e == generate_content(http).err
              returned == gemini_send_error(e)
          IN  /\ ~generate_content(http).ok
              /\ reply' = Some(http)
              /\ outcome' = [kind |-> "Err", error |-> returned.error,
                             message |-> returned.message]
              /\ failures' = failures \cup {[class |-> failure_class(http),
                                             client |-> e.kind,
                                             error |-> returned.error]}
    /\ UNCHANGED <<inner, profile, seeded, queue, calls, sent, conversions, posted,
                   response, handle, events, received, clock, issued>>
    /\ UNCHANGED pureVars
    /\ UNCHANGED buildVars
    /\ UNCHANGED newVars
    /\ UNCHANGED mockVars

(* send_message, Inner::Gemini arm: result.content[0] on an empty content *)
GeminiSendPanic ==
    /\ inner = "Gemini"
    /\ calls < MaxCalls
    /\ outcome.kind # "Awaiting"
    /\ \E conversation_state \in Conversations :
          /\ mock_user_message_panics(conversation_state.user_input_message)
          /\ sent' = Some(conversation_state)
    /\ outcome' = [kind |-> "Panic"]
    /\ posted' = None
    /\ reply' = None
    /\ response' = None
    /\ handle' = None
    /\ events' = <<>>
    /\ received' = <<>>
    /\ calls' = calls + 1
    /\ issued' = issued \cup tool_use_ids(events)
    /\ UNCHANGED <<inner, profile, seeded, queue, conversions, failures, clock>>
    /\ UNCHANGED pureVars
    /\ UNCHANGED buildVars
    /\ UNCHANGED newVars
    /\ UNCHANGED mockVars

(* send_message, Codewhisperer and QDeveloper arms up to .send(): the      *)
(* history is converted message by message; a failure returns through `?`  *)
(* before the request exists, otherwise the request goes to the backend.   *)
EnterprisePost ==
    /\ inner \in {"Codewhisperer", "QDeveloper"}
    /\ calls < MaxCalls
    /\ outcome.kind # "Awaiting"
    /\ \E conversation_state \in Conversations :
          \E converts \in Conversions(conversation_state) :
             LET state == enterprise_conversation_state(conversation_state, converts)
             IN  /\ sent' = Some(conversation_state)
                 /\ conversions' = converts
                 /\ IF state.ok
                    THEN /\ posted' = Some([conversation_state |-> state.val,
                                            profile_arn |->
                                               IF inner = "Codewhisperer" /\ profile.some
                                               THEN Some(profile.val.arn) ELSE None])
                         /\ outcome' = [kind |-> "Awaiting"]
                    ELSE /\ posted' = None
                         /\ outcome' = [kind |-> "Err", error |-> state.err.error,
                                        message |-> state.err.message]
    /\ reply' = None
    /\ handle' = None
    /\ calls' = calls + 1
    /\ UNCHANGED <<inner, profile, seeded, queue, response, failures, events,
                   received, clock, issued>>
    /\ UNCHANGED pureVars
    /\ UNCHANGED buildVars
    /\ UNCHANGED newVars
    /\ UNCHANGED mockVars

(* Mutant: a failed send forgets the profile. *)
EnterpriseReplyDroppingProfile ==
    /\ inner \in {"Codewhisperer", "QDeveloper"}
    /\ outcome.kind = "Awaiting"
    /\ \E answer \in EnterpriseReplies :
          /\ reply' = Some(answer)
          /\ profile' = IF answer.ok THEN profile ELSE None
          /\ IF answer.ok
             THEN /\ handle' = Some([kind |-> inner,
                                     request_id |-> answer.val.request_id])
                  /\ outcome' = [kind |-> "Ok"]
             ELSE LET returned == IF inner = "Codewhisperer"
                                  THEN codewhisperer_send_error(answer.err)
                                  ELSE qdeveloper_send_error(answer.err)
                  IN  /\ handle' = None
                      /\ outcome' = [kind |-> "Err", error |-> returned.error,
                                     message |-> returned.message]
    /\ UNCHANGED <<inner, seeded, queue, calls, sent, conversions, posted,
                   response, failures, events, received, clock, issued>>
    /\ UNCHANGED pureVars
    /\ UNCHANGED buildVars
    /\ UNCHANGED newVars
    /\ UNCHANGED mockVars

(* send_message, Codewhisperer and QDeveloper arms: the backend answers *)
EnterpriseReply ==
    /\ inner \in {"Codewhisperer", "QDeveloper"}
    /\ outcome.kind = "Awaiting"
    /\ \E answer \in EnterpriseReplies :
          /\ reply' = Some(answer)
          /\ IF answer.ok
             THEN /\ handle' = Some([kind |-> inner,
                                     request_id |-> answer.val.request_id])
                  /\ outcome' = [kind |-> "Ok"]
             ELSE LET returned == IF inner = "Codewhisperer"
                                  THEN codewhisperer_send_error(answer.err)
                                  ELSE qdeveloper_send_error(answer.err)
                  IN  /\ handle' = None
                      /\ outcome' = [kind |-> "Err", error |-> returned.error,
                                     message |-> returned.message]
    /\ UNCHANGED <<inner, profile, seeded, queue, calls, sent, conversions, posted,
                   response, failures, events, received, clock, issued>>
    /\ UNCHANGED pureVars
    /\ UNCHANGED buildVars
    /\ UNCHANGED newVars
    /\ UNCHANGED mockVars

(* SendMessageOutput::recv on a Gemini or Mock handle: Ok(vec.pop()) *)
Recv ==
    /\ handle.some
    /\ handle.val.kind \in {"Gemini", "Mock"}
    /\ Len(received) < Len(events) + MaxExtraRecv
    /\ LET popped == vec_pop(handle.val.vec)
       IN  /\ received' = Append(received, popped.value)
           /\ handle' = Some([kind |-> handle.val.kind, vec |-> popped.rest])
    /\ UNCHANGED <<inner, profile, seeded, queue, calls, sent, conversions, posted,
                   reply, response, outcome, failures, events, clock, issued>>
    /\ UNCHANGED pureVars
    /\ UNCHANGED buildVars
    /\ UNCHANGED newVars
    /\ UNCHANGED mockVars

Next ==
    \/ MockSend
    \/ GeminiPost
    \/ GeminiReplyOk
    \/ GeminiReplyErr
    \/ GeminiSendPanic
    \/ EnterprisePost
    \/ EnterpriseReply
    \/ Recv

Spec == Init /\ [][Next]_vars

----------------------------------------------------------------------------
(***************************************************************************)
(* Claims settled under Spec.                                              *)
(***************************************************************************)
Min(a, b) == IF a <= b THEN a ELSE b

(* What the recv calls made so far on a handle over `list` have returned   *)
(* when the list is delivered front to back and followed by None.          *)
DeliveredInOrder(list) ==
    \A k \in 1..Len(received) :
        received[k] = (IF k <= Len(list) THEN Some(list[k]) ELSE None)

(* The batch the mock was seeded with for its k-th call. *)
SeededBatch(k) == IF k <= Len(seeded) THEN seeded[k] ELSE <<>>

(* C1: for a mock gateway seeded with N batches and send_message calls     *)
(* made one after another, the handle of the k-th call (1 <= k <= N)       *)
(* yields on successive recv calls exactly the events of batch k in their  *)
(* original order, and the handle of every call after the N-th yields None *)
(* on its first recv, whatever conversation was passed to the call.        *)
C1_MockBatches ==
    (inner = "Mock" /\ calls >= 1) =>
        /\ outcome.kind = "Ok"
        /\ handle.some
        /\ handle.val.kind = "Mock"
        /\ Len(handle.val.vec)
              = Len(SeededBatch(calls)) - Min(Len(received), Len(SeededBatch(calls)))
        /\ DeliveredInOrder(SeededBatch(calls))
        /\ (calls > Len(seeded) /\ received # <<>>) => received[1] = None

C1_Witness ==
    /\ inner = "Mock"
    /\ Len(seeded) = 2
    /\ seeded[1] = <<AssistantResponseEvent("Hello!")>>
    /\ seeded[2] = <<AssistantResponseEvent(" How can I"), AssistantResponseEvent("Hello!")>>
    /\ calls = 2
    /\ sent = Some(ConvTools)
    /\ received = <<Some(AssistantResponseEvent(" How can I")),
                    Some(AssistantResponseEvent("Hello!")), None>>

(* The mock has run out of batches: the call after the last batch. *)
C1_WitnessPastEnd ==
    /\ inner = "Mock"
    /\ Len(seeded) = 2
    /\ seeded[2] # <<>>
    /\ calls = 3
    /\ received = <<None>>

(* Events a part contributes: one for text, two for a function call. *)
PartWidth(part) ==
    CASE part.kind = "Text" -> 1
      [] part.kind = "FunctionCall" -> 2
      [] part.kind = "FunctionResponse" -> 0

RECURSIVE WidthBefore(_, _)
WidthBefore(parts, i) ==
    IF i <= 1 THEN 0 ELSE WidthBefore(parts, i - 1) + PartWidth(parts[i - 1])

(* C2: normalizing a REST response uses only the first candidate and walks *)
(* its parts in order: a text part gives one AssistantResponseEvent with   *)
(* that text, a function-call part gives two consecutive ToolUseEvents     *)
(* with one tool_use_id and the call's name, the first with input = None   *)
(* and stop = None, the second with input = Some(serialized args) and      *)
(* stop = Some(true), and a function-response part gives nothing; so t     *)
(* text parts and f function calls give exactly t + 2f events in source    *)
(* order, and a response without candidates gives no event.                *)
C2_Normalization ==
    (inner = "Gemini" /\ outcome.kind = "Ok" /\ response.some) =>
        LET cands == response.val.candidates
            parts == IF cands = <<>> THEN <<>> ELSE cands[1].content.parts
            t     == Cardinality({i \in 1..Len(parts) : parts[i].kind = "Text"})
            f     == Cardinality({i \in 1..Len(parts) : parts[i].kind = "FunctionCall"})
        IN  /\ Len(events) = t + 2 * f
            /\ cands = <<>> => events = <<>>
            /\ \A i \in 1..Len(parts) :
                  LET at == WidthBefore(parts, i)
                  IN  /\ parts[i].kind = "Text" =>
                            events[at + 1] = AssistantResponseEvent(parts[i].text)
                      /\ parts[i].kind = "FunctionCall" =>
                            /\ events[at + 1].kind = "ToolUseEvent"
                            /\ events[at + 2].kind = "ToolUseEvent"
                            /\ events[at + 1].tool_use_id = events[at + 2].tool_use_id
                            /\ events[at + 1].name = parts[i].function_call.name
                            /\ events[at + 2].name = parts[i].function_call.name
                            /\ events[at + 1].input = None
                            /\ events[at + 1].stop = None
                            /\ events[at + 2].input
                                  = Some(to_json_string(parts[i].function_call.args))
                            /\ events[at + 2].stop = Some(TRUE)

C2_Witness ==
    /\ inner = "Gemini"
    /\ outcome.kind = "Ok"
    /\ response.some
    /\ Len(response.val.candidates) = 2
    /\ response.val.candidates[1].content.parts
          = <<TextPart("Hello!"), FunctionCallPart("fs_read", FileArgs)>>
    /\ Len(events) = 3
    /\ events[1] = AssistantResponseEvent("Hello!")
    /\ events[3].input = Some("{\"path\":\"test.txt\"}")

(* A function-response part in the answer leaves no event. *)
C2_WitnessIgnored ==
    /\ inner = "Gemini"
    /\ outcome.kind = "Ok"
    /\ response.some
    /\ response.val.candidates # <<>>
    /\ Len(response.val.candidates[1].content.parts) = 2
    /\ response.val.candidates[1].content.parts[1].kind = "FunctionResponse"
    /\ response.val.candidates[1].content.parts[2].kind = "FunctionCall"
    /\ Len(events) = 2

(* C3: for the REST and mock backends the values successive recv calls on  *)
(* one handle return are exactly the materialized event list in its        *)
(* original order, each event once, followed by None; after the first None *)
(* every later recv returns None.                                          *)
C3_ForwardOnly ==
    (handle.some /\ handle.val.kind \in {"Gemini", "Mock"}) =>
        /\ DeliveredInOrder(events)
        /\ \A j, k \in 1..Len(received) :
              (j <= k /\ received[j] = None) => received[k] = None
        /\ Len(received) <= Len(events) =>
              handle.val.vec = Reverse(SubSeq(events, Len(received) + 1, Len(events)))
        /\ Len(received) > Len(events) => handle.val.vec = <<>>

C3_Witness ==
    /\ handle.some
    /\ handle.val.kind = "Gemini"
    /\ Len(events) = 3
    /\ events[1] # events[2]
    /\ events[2] # events[3]
    /\ received = <<Some(events[1]), Some(events[2]), Some(events[3]), None, None>>

C3_WitnessMock ==
    /\ handle.some
    /\ handle.val.kind = "Mock"
    /\ Len(events) = 2
    /\ events[1] # events[2]
    /\ received = <<Some(events[1]), Some(events[2]), None, None>>

----------------------------------------------------------------------------
(***************************************************************************)
(* SpecNew: StreamingClient::new.  The configuration file is looked at     *)
(* three times (config_exists, config_path.exists(), fs::read_to_string);  *)
(* others may create, replace or remove it in between.                     *)
(***************************************************************************)
MaxFileChanges == 2   \* changes others make to the file during one construction

ConfigText(api_key, model, temperature) ==
    JObj([api_key |-> JStr(api_key), model |-> JStr(model),
          temperature |-> JNum(temperature)])

ConfigTexts ==
    {NotJson,
     JObj([api_key |-> JStr("key"), model |-> JStr("gemini-2.0-flash")]),
     JObj([api_key |-> JNum(1), model |-> JStr("gemini-2.0-flash"),
           temperature |-> JNum(7)]),
     ConfigText("key", "gemini-2.0-flash", 0),
     ConfigText("key", "gemini-2.0-flash", 7),
     ConfigText("key", "gemini-2.0-flash", 10),
     ConfigText("", "gemini-2.0-flash", 7),
     ConfigText("key", "", 7),
     ConfigText("key", "gemini-2.0-flash", -1),
     ConfigText("key", "gemini-2.0-flash", 11),
     ConfigText("", "", 11)}

ConfigFiles ==
    {[kind |-> "absent"], [kind |-> "unreadable"]}
    \cup {[kind |-> "text", text |-> t] : t \in ConfigTexts}

(* What construction reads besides the file: the variable, the sandbox     *)
(* test, whether sigv4_sdk_config succeeds, and database.get_auth_profile. *)
Environments ==
    [kind : {"host"},
     q_use_sendmessage : {None, Some(""), Some("1")},
     in_cloudshell : BOOLEAN,
     sigv4_sdk_config : BOOLEAN,
     auth_profile : {Ok(None), Ok(Some([arn |-> "arn:profile"])), Err("database")}]

(* new_qdeveloper_client: fails when sigv4_sdk_config does *)
new_qdeveloper_client(env) ==
    IF env.sigv4_sdk_config
    THEN Ok([inner |-> "QDeveloper", client |-> None, profile |-> None])
    ELSE Err(ApiClientError("Credentials", "sigv4_sdk_config failed"))

(* new_codewhisperer_client: a failing get_auth_profile leaves no profile *)
new_codewhisperer_client(env) ==
    Ok([inner |-> "Codewhisperer", client |-> None,
        profile |-> IF env.auth_profile.ok THEN env.auth_profile.val ELSE None])

NewInit ==
    /\ config_file \in ConfigFiles
    /\ environment \in Environments
    /\ pc = "new"
    /\ selected = None
    /\ created = None
    /\ changes = 0
    /\ PureIdle
    /\ BuildIdle
    /\ GwIdle
    /\ MockIdle

(* StreamingClient::new, config_exists() is true: new_gemini_client is     *)
(* entered and load_config called.                                         *)
NewConfigExists ==
    /\ pc = "new"
    /\ exists(config_file)
    /\ selected' = Some("new_gemini_client")
    /\ pc' = "load_config"
    /\ UNCHANGED <<config_file, environment, created, changes>>
    /\ UNCHANGED pureVars
    /\ UNCHANGED buildVars
    /\ UNCHANGED gwVars
    /\ UNCHANGED mockVars

(* StreamingClient::new, config_exists() is false: the environment decides *)
NewByEnvironment ==
    /\ pc = "new"
    /\ ~exists(config_file)
    /\ IF use_sendmessage(environment)
       THEN /\ selected' = Some("new_qdeveloper_client")
            /\ created' = Some(new_qdeveloper_client(environment))
       ELSE /\ selected' = Some("new_codewhisperer_client")
            /\ created' = Some(new_codewhisperer_client(environment))
    /\ pc' = "done"
    /\ UNCHANGED <<config_file, environment, changes>>
    /\ UNCHANGED pureVars
    /\ UNCHANGED buildVars
    /\ UNCHANGED gwVars
    /\ UNCHANGED mockVars

(* load_config: !config_path.exists() *)
LoadConfigNotFound ==
    /\ pc = "load_config"
    /\ ~exists(config_file)
    /\ created' = Some(new_gemini_client(load_config_not_found))
    /\ pc' = "done"
    /\ UNCHANGED <<config_file, environment, selected, changes>>
    /\ UNCHANGED pureVars
    /\ UNCHANGED buildVars
    /\ UNCHANGED gwVars
    /\ UNCHANGED mockVars

(* load_config: config_path.exists() *)
LoadConfigExists ==
    /\ pc = "load_config"
    /\ exists(config_file)
    /\ pc' = "read_to_string"
    /\ UNCHANGED <<config_file, environment, selected, created, changes>>
    /\ UNCHANGED pureVars
    /\ UNCHANGED buildVars
    /\ UNCHANGED gwVars
    /\ UNCHANGED mockVars

(* load_config: the file is read, parsed and validated; new_gemini_client  *)
(* builds the client or reports the failure.                               *)
LoadConfigRead ==
    /\ pc = "read_to_string"
    /\ created' = Some(new_gemini_client(load_config_read(config_file)))
    /\ pc' = "done"
    /\ UNCHANGED <<config_file, environment, selected, changes>>
    /\ UNCHANGED pureVars
    /\ UNCHANGED buildVars
    /\ UNCHANGED gwVars
    /\ UNCHANGED mockVars

(* Someone else creates, replaces or removes the file. *)
FileChanged ==
    /\ pc \in {"new", "load_config", "read_to_string"}
    /\ changes < MaxFileChanges
    /\ \E file \in ConfigFiles \ {config_file} : config_file' = file
    /\ changes' = changes + 1
    /\ UNCHANGED <<environment, pc, selected, created>>
    /\ UNCHANGED pureVars
    /\ UNCHANGED buildVars
    /\ UNCHANGED gwVars
    /\ UNCHANGED mockVars

NewNext ==
    \/ NewConfigExists
    \/ NewByEnvironment
    \/ LoadConfigNotFound
    \/ LoadConfigExists
    \/ LoadConfigRead
    \/ FileChanged

SpecNew == NewInit /\ [][NewNext]_vars

----------------------------------------------------------------------------
(***************************************************************************)
(* Claims settled under SpecNew.                                           *)
(***************************************************************************)

(* The file holds a configuration that parses and passes validation. *)
ValidConfigFile(file) ==
    /\ file.kind = "text"
    /\ from_str(file.text).ok
    /\ from_str(file.text).val.api_key # ""
    /\ from_str(file.text).val.model # ""
    /\ from_str(file.text).val.temperature >= 0
    /\ from_str(file.text).val.temperature <= 10

(* The environment flag: the variable set to a non-empty value, or the     *)
(* sandboxed CLI environment.                                              *)
EnvironmentFlag ==
    \/ environment.in_cloudshell
    \/ environment.q_use_sendmessage \notin {None, Some("")}

(* The backend the precedence names for the file and the environment. *)
BackendByPrecedence ==
    IF ValidConfigFile(config_file) THEN "Gemini"
    ELSE IF EnvironmentFlag THEN "QDeveloper"
    ELSE "Codewhisperer"

ConfigurationFailure ==
    /\ created.some
    /\ ~created.val.ok
    /\ created.val.err.error = "ModelConfigurationError"

C12_WitnessFileFirst ==
    /\ pc = "done"
    /\ changes = 0
    /\ environment.q_use_sendmessage = Some("1")
    /\ environment.in_cloudshell
    /\ created.val.ok
    /\ created.val.val.inner = "Gemini"

(* C13: an unreadable or invalid configuration file makes construction     *)
(* fail with a configuration error, never skipping to another backend, and *)
(* a file that is not found never makes construction fail: selection then  *)
(* falls through to the environment.  This holds however construction is   *)
(* interleaved with others creating or removing the file, a removal        *)
(* between the existence check and the load included.                      *)
C13_NotFoundFallsThrough ==
    pc = "done" =>
        /\ (changes = 0 /\ exists(config_file) /\ ~ValidConfigFile(config_file)) =>
              ConfigurationFailure
        /\ ~exists(config_file) =>
              /\ ~ConfigurationFailure
              /\ selected \in {Some("new_qdeveloper_client"),
                               Some("new_codewhisperer_client")}

(* C14: load_config returns a configuration only if the file exists, is    *)
(* readable, parses and passes validation (api_key not empty, model not    *)
(* empty, temperature within [0, 1] inclusive) and a ConfigurationError    *)
(* and no configuration otherwise, so the gateway never builds a REST      *)
(* client with an empty key, an empty model or a temperature out of range. *)
C14_LoadedConfigIsValid ==
    (pc = "done" /\ selected = Some("new_gemini_client")) =>
        IF ValidConfigFile(config_file)
        THEN /\ created.val.ok
             /\ created.val.val.inner = "Gemini"
             /\ created.val.val.client = from_str(config_file.text).val
             /\ created.val.val.client.api_key # ""
             /\ created.val.val.client.model # ""
             /\ created.val.val.client.temperature \in 0..10
        ELSE ConfigurationFailure

C14_Witness ==
    /\ pc = "done"
    /\ created.val.ok
    /\ created.val.val.inner = "Gemini"
    /\ created.val.val.client = GeminiConfig("key", "gemini-2.0-flash", 10)

(* A temperature just out of range is refused. *)
C14_WitnessRefused ==
    /\ pc = "done"
    /\ config_file = [kind |-> "text", text |-> ConfigText("key", "gemini-2.0-flash", 11)]
    /\ ConfigurationFailure

----------------------------------------------------------------------------
(***************************************************************************)
(* Claims about the backend calls, settled under Spec.                     *)
(***************************************************************************)
Enterprise == {"Codewhisperer", "QDeveloper"}

(* The latest send's backend call failed with this SdkError. *)
EnterpriseCallFailed ==
    /\ inner \in Enterprise
    /\ reply.some
    /\ ~reply.val.ok

(* C11: on every enterprise backend, the default one and the developer one *)
(* alike, a send_message whose backend call fails with HTTP status 429     *)
(* returns the quota-breach error, never a generic one; on the default     *)
(* backend also when the failure carries the context-window-overflow code  *)
(* and message.                                                            *)
C11_QuotaBreachOn429 ==
    (EnterpriseCallFailed /\ reply.val.err.status = Some(429)) =>
        /\ outcome.kind = "Err"
        /\ outcome.error = "QuotaBreach"

(* C15: on the enterprise backends, when one historical message fails to   *)
(* convert, send_message returns the conversion error and no backend call  *)
(* is issued for that send; a backend call is made only after every        *)
(* historical message has converted, and it carries all of them.           *)
C15_ConversionBeforeCall ==
    (inner \in Enterprise /\ sent.some) =>
        LET failed == \E i \in 1..Len(conversions) : ~conversions[i]
            hist   == sent.val.history
        IN  /\ failed =>
                  /\ outcome.kind = "Err"
                  /\ outcome.error = "SmithyBuild"
                  /\ posted = None
                  /\ reply = None
                  /\ handle = None
            /\ posted.some =>
                  /\ ~failed
                  /\ posted.val.conversation_state.history.some = hist.some
                  /\ hist.some =>
                        LET native == posted.val.conversation_state.history.val
                        IN  /\ Len(native) = Len(hist.val)
                            /\ \A i \in 1..Len(native) : native[i].native = hist.val[i]
            /\ reply.some => posted.some

C15_Witness ==
    /\ inner = "QDeveloper"
    /\ sent.some
    /\ sent.val.history.some
    /\ conversions = <<TRUE, FALSE>>
    /\ outcome.kind = "Err"
    /\ outcome.error = "SmithyBuild"
    /\ posted = None
    /\ calls = 2

(* A backend call after a full conversion. *)
C15_WitnessCalled ==
    /\ inner = "Codewhisperer"
    /\ conversions = <<TRUE, TRUE>>
    /\ posted.some
    /\ reply.some
    /\ reply.val.ok

(* C16: when the REST backend answers with HTTP status 429, the error the  *)
(* REST client returns and the gateway surfaces is of the rate-limit kind, *)
(* not the generic transport kind and not the generic API kind.            *)
C16_RateLimitKind ==
    (inner = "Gemini" /\ reply.some /\ reply.val.class = "reply"
     /\ reply.val.status = 429) =>
        /\ outcome.kind = "Err"
        /\ \A f \in failures : f.class = "status" => f.client \notin {"HttpError", "ApiError"}
        /\ generate_content(reply.val) =
              Err(GeminiError("RateLimitError", generate_content(reply.val).err.msg))

(* C17: for a REST send the three failure classes (the request could not   *)
(* be sent, a status that is not 2xx, a body that does not decode) give    *)
(* three different error kinds, and the error send_message returns keeps   *)
(* them apart: two failures of different classes never come back as the    *)
(* same kind.                                                              *)
C17_DistinctFailureKinds ==
    \A f, g \in failures :
        f.class # g.class => (f.client # g.client /\ f.error # g.error)

(* C18: on the default enterprise-assistant backend a failed send is       *)
(* classified as context-window-overflow if and only if the status is not  *)
(* 429 and the service error has code "ValidationException" and message    *)
(* exactly "Input is too long."; a failure with only the code, only the    *)
(* message or no service error is passed on as the generic backend error.  *)
C18_ContextWindowOverflow ==
    (EnterpriseCallFailed /\ inner = "Codewhisperer") =>
        LET e == reply.val.err
            matches == /\ e.service.some
                       /\ e.service.val.code = Some("ValidationException")
                       /\ e.service.val.message = Some("Input is too long.")
        IN  /\ outcome.kind = "Err"
            /\ outcome.error = "ContextWindowOverflow"
                  <=> (e.status # Some(429) /\ matches)
            /\ (e.status # Some(429) /\ ~matches) =>
                  outcome.error = "CodewhispererGenerateAssistantResponse"

C18_Witness ==
    /\ inner = "Codewhisperer"
    /\ reply = Some(Err(SdkError(Some(400),
                                 Some(ErrorMetadata(Some("ValidationException"),
                                                    Some("Input is too long."))))))
    /\ outcome.kind = "Err"
    /\ outcome.error = "ContextWindowOverflow"

(* The code alone is not enough. *)
C18_WitnessCodeOnly ==
    /\ inner = "Codewhisperer"
    /\ reply = Some(Err(SdkError(Some(400),
                                 Some(ErrorMetadata(Some("ValidationException"),
                                                    Some("Input is too long"))))))
    /\ outcome.error = "CodewhispererGenerateAssistantResponse"

(* C19: send_message never panics: for every conversation, every backend   *)
(* variant and every backend outcome a call returns Ok(handle) or a typed  *)
(* Err value.                                                              *)
C19_NeverPanics ==
    /\ outcome.kind \in {"none", "Awaiting", "Ok", "Err"}
    /\ (calls >= 1 /\ outcome.kind # "Awaiting") => outcome.kind \in {"Ok", "Err"}

(* C20: the request id a handle exposes is None for handles of the REST    *)
(* and mock backends, through the inherent request_id method and through   *)
(* the RequestId trait alike; for the enterprise backends it is what the   *)
(* backend output reports.                                                 *)
C20_RequestId ==
    handle.some =>
        IF handle.val.kind \in {"Gemini", "Mock"}
        THEN /\ request_id(handle.val) = None
             /\ RequestId_request_id(handle.val) = None
        ELSE /\ request_id(handle.val) = reply.val.val.request_id
             /\ RequestId_request_id(handle.val) = reply.val.val.request_id

----------------------------------------------------------------------------
(***************************************************************************)
(* Claims about tool-use ids, tool declarations, the gateway's own state   *)
(* and tool-result payloads, settled under Spec.                           *)
(***************************************************************************)

(* Where the function-call parts of the latest answer are announced. *)
Announcements ==
    {i \in 1..Len(events) :
        events[i].kind = "ToolUseEvent" /\ events[i].input = None}

(* C21: the tool-use ids the REST normalizer generates are unique: two     *)
(* different function-call parts, of one response or of two responses to   *)
(* the same client, never get the same id, whatever the clock reads.       *)
C21_UniqueToolUseIds ==
    inner = "Gemini" =>
        /\ \A i, j \in Announcements :
              i # j => events[i].tool_use_id # events[j].tool_use_id
        /\ tool_use_ids(events) \cap issued = {}

(* C22: the request handed to the REST client declares the conversation's  *)
(* tools in their order, name and description unchanged, and each          *)
(* declaration's parameters are the simplifier's result for the tool's     *)
(* schema (one application); a conversation without a tool list gives a    *)
(* request without a tools field.                                          *)
C22_ToolDeclarations ==
    (inner = "Gemini" /\ posted.some) =>
        LET tools == context_tools(sent.val.user_input_message)
        IN  IF ~tools.some THEN posted.val.tools = None
            ELSE /\ posted.val.tools.some
                 /\ Len(posted.val.tools.val) = 1
                 /\ LET declared == posted.val.tools.val[1].function_declarations
                    IN  /\ Len(declared) = Len(tools.val)
                        /\ \A i \in 1..Len(declared) :
                              /\ declared[i].name = tools.val[i].name
                              /\ declared[i].description = tools.val[i].description
                              /\ tools.val[i].input_schema.json.some =>
                                    declared[i].parameters =
                                       clean_parameters_for_gemini(
                                           tools.val[i].input_schema.json.val)

(* C25: a send_message call leaves the client's backend variant and its    *)
(* profile as they were, whether it succeeds or fails; the only state of   *)
(* the gateway a send changes is the mock backend's queue.                 *)
C25_SendLeavesClient ==
    [][/\ inner' = inner
       /\ profile' = profile
       /\ queue' # queue => inner = "Mock"]_vars

(* Sends that failed on a client with a profile. *)
C25_Witness ==
    /\ inner = "Codewhisperer"
    /\ profile = Some([arn |-> "arn:profile"])
    /\ calls = MaxCalls
    /\ outcome.kind = "Err"
    /\ outcome.error = "QuotaBreach"

(* The tool results the user turns of these messages carry, in order. *)
RECURSIVE tool_results_in(_)
tool_results_in(msgs) ==
    IF msgs = <<>> THEN <<>>
    ELSE (IF Head(msgs).kind = "UserInputMessage" /\ context_tool_results(Head(msgs)).some
          THEN context_tool_results(Head(msgs)).val
          ELSE <<>>) \o tool_results_in(Tail(msgs))

(* C29: a tool result gives the same function-response payload in the      *)
(* request whether it stands in a historical user message or in the        *)
(* current one: two results with equal content and status, one in each     *)
(* position, yield identical response values.                              *)
C29_SamePayloadInBothPositions ==
    (inner = "Gemini" /\ posted.some) =>
        LET hist == IF sent.val.history.some
                    THEN tool_results_in(sent.val.history.val) ELSE <<>>
            cur  == tool_results_in(<<sent.val.user_input_message>>)
            responses == SelectSeq(posted.val.contents,
                                   LAMBDA c : c.parts[1].kind = "FunctionResponse")
        IN  /\ Len(responses) = Len(hist) + Len(cur)
            /\ \A i \in 1..Len(hist), j \in 1..Len(cur) :
                  (hist[i].content = cur[j].content /\ hist[i].status = cur[j].status) =>
                      responses[i].parts[1].function_response.response
                         = responses[Len(hist) + j].parts[1].function_response.response

----------------------------------------------------------------------------
(***************************************************************************)
(* SpecMock: concurrent send_message calls on a mock client and its        *)
(* clones.  The clones share one Arc<Mutex<IntoIter>>; each caller runs    *)
(*     events.lock().unwrap().next().unwrap_or_default().clone()           *)
(*     new_events.reverse(); Ok(SendMessageOutput::Mock(new_events))       *)
(* The guard lives to the end of the first statement.  IntoIter::next is   *)
(* taken in its two steps, the read at the cursor and the cursor's         *)
(* advance, so that the exclusion is what keeps them together.             *)
(***************************************************************************)
MaxCallers == 3

Callers == 1..MaxCallers

gwOthers == <<inner, profile, seeded, calls, sent, conversions, posted, reply,
              response, outcome, failures, handle, events, received, clock, issued>>

(* Mutant: the lock is granted while another caller holds it. *)
mutex_granted_always(m) == TRUE

(* Mutex::lock returns once no other caller holds the guard. *)
mutex_granted(m) == m = None

MockInit ==
    /\ inner = "Mock"
    /\ profile = None
    /\ seeded \in SeqsUpTo(Batches, MaxBatches)
    /\ queue = seeded
    /\ calls = 0
    /\ sent = None
    /\ conversions = <<>>
    /\ posted = None
    /\ reply = None
    /\ response = None
    /\ outcome = [kind |-> "none"]
    /\ failures = {}
    /\ handle = None
    /\ events = <<>>
    /\ received = <<>>
    /\ clock = 0
    /\ issued = {}
    /\ mutex = None
    /\ callers = [c \in Callers |-> [pc |-> "lock", new_events |-> <<>>, output |-> None]]
    /\ taken = <<>>
    /\ PureIdle
    /\ BuildIdle
    /\ NewIdle

(* events.lock().unwrap() *)
MockLock(c) ==
    /\ callers[c].pc = "lock"
    /\ mutex_granted(mutex)
    /\ mutex' = Some(c)
    /\ callers' = [callers EXCEPT ![c].pc = "next"]
    /\ UNCHANGED <<queue, taken>>
    /\ UNCHANGED gwOthers
    /\ UNCHANGED pureVars
    /\ UNCHANGED buildVars
    /\ UNCHANGED newVars

(* .next().unwrap_or_default(), first half: the batch at the cursor is read *)
MockIterRead(c) ==
    /\ callers[c].pc = "next"
    /\ LET batch == mock_next_batch(queue).batch
       IN  /\ callers' = [callers EXCEPT ![c].pc = "advance", ![c].new_events = batch]
           /\ taken' = Append(taken, [caller |-> c, batch |-> batch])
    /\ UNCHANGED <<queue, mutex>>
    /\ UNCHANGED gwOthers
    /\ UNCHANGED pureVars
    /\ UNCHANGED buildVars
    /\ UNCHANGED newVars

(* second half: the cursor moves on; the statement ends and the guard is   *)
(* dropped.                                                                *)
MockIterAdvance(c) ==
    /\ callers[c].pc = "advance"
    /\ queue' = mock_next_batch(queue).rest
    /\ mutex' = None
    /\ callers' = [callers EXCEPT ![c].pc = "reverse"]
    /\ UNCHANGED taken
    /\ UNCHANGED gwOthers
    /\ UNCHANGED pureVars
    /\ UNCHANGED buildVars
    /\ UNCHANGED newVars

(* new_events.reverse(); Ok(SendMessageOutput::Mock(new_events)) *)
MockReturn(c) ==
    /\ callers[c].pc = "reverse"
    /\ callers' = [callers EXCEPT
                     ![c].pc = "done",
                     ![c].output = Some([kind |-> "Mock",
                                         vec |-> reversed_for_pop(callers[c].new_events)])]
    /\ UNCHANGED <<queue, mutex, taken>>
    /\ UNCHANGED gwOthers
    /\ UNCHANGED pureVars
    /\ UNCHANGED buildVars
    /\ UNCHANGED newVars

MockNext ==
    \E c \in Callers :
        \/ MockLock(c)
        \/ MockIterRead(c)
        \/ MockIterAdvance(c)
        \/ MockReturn(c)

SpecMock == MockInit /\ [][MockNext]_vars

(* C24: under every interleaving of concurrent send_message calls on a     *)
(* mock client and its clones, the k-th call to reach the queue gets the   *)
(* k-th seeded batch: no batch is handed out twice or lost, the batches    *)
(* leave in their original order, the calls beyond the number of batches   *)
(* get an empty list, and each call returns the batch it took.             *)
C24_EachBatchOnce ==
    callers # <<>> =>
        /\ \A k \in 1..Len(taken) : taken[k].batch = SeededBatch(k)
        /\ \A k, l \in 1..Len(taken) : k # l => taken[k].caller # taken[l].caller
        /\ mutex = None =>
              queue = SubSeq(seeded, Min(Len(taken), Len(seeded)) + 1, Len(seeded))
        /\ \A c \in Callers :
              callers[c].pc = "done" =>
                  \E k \in 1..Len(taken) :
                      /\ taken[k].caller = c
                      /\ callers[c].output =
                            Some([kind |-> "Mock", vec |-> Reverse(taken[k].batch)])

(* Three calls on two different batches, reaching the queue out of caller  *)
(* order; the surplus call returned an empty list.                         *)
C24_Witness ==
    /\ callers # <<>>
    /\ \A c \in Callers : callers[c].pc = "done"
    /\ Len(seeded) = 2
    /\ Len(seeded[1]) = 2
    /\ seeded[1] # seeded[2]
    /\ seeded[2] # <<>>
    /\ Len(taken) = 3
    /\ taken[1].caller = 3
    /\ taken[2].caller = 1
    /\ callers[3].output = Some([kind |-> "Mock", vec |-> Reverse(seeded[1])])
    /\ callers[1].output = Some([kind |-> "Mock", vec |-> Reverse(seeded[2])])
    /\ callers[2].output = Some([kind |-> "Mock", vec |-> <<>>])

----------------------------------------------------------------------------
(***************************************************************************)
(* Claim about successive builds, settled under SpecRebuild.               *)
(***************************************************************************)


(* C23: the map from tool-use ids to names lives for one build only: each  *)
(* build starts from an empty map, so after a build the map holds exactly  *)
(* the ids of that conversation's tool uses, and a tool result whose id    *)
(* was registered only by a tool use of an earlier build is named by its   *)
(* raw id, not by the earlier tool's name.                                 *)
C23_MapScopedToBuild ==
    built =>
        LET msgs == AllMessages
            c    == BuiltContents
            offs == Offsets(msgs)
        IN  /\ \A id \in {"tool-123", "tool-456"} :
                  id \in DOMAIN last_map <=> UsesIn(msgs, 1..Len(msgs), id) # {}
            /\ \A pl \in ResultPlaces(msgs) :
                  LET result == ToolList(msgs[pl[1]])[pl[2]]
                      k      == offs[pl[1]] + TextCount(msgs[pl[1]]) + pl[2]
                  IN  (/\ result.tool_use_id \in DOMAIN prior_map
                       /\ UsesIn(msgs, 1..Len(msgs), result.tool_use_id) = {}) =>
                          /\ IsFunctionResponseAt(c, k)
                          /\ c[k].parts[1].function_response.name = result.tool_use_id

(* The second build answers a result for tool-123, which only the first    *)
(* build's conversation used (as fs_read).                                 *)
C23_Witness ==
    /\ built
    /\ builds = 2
    /\ "tool-123" \in DOMAIN prior_map
    /\ prior_map["tool-123"] = "fs_read"
    /\ LET msgs == AllMessages
           c    == BuiltContents
           offs == Offsets(msgs)
       IN  \E pl \in ResultPlaces(msgs) :
              LET result == ToolList(msgs[pl[1]])[pl[2]]
                  k      == offs[pl[1]] + TextCount(msgs[pl[1]]) + pl[2]
              IN  /\ result.tool_use_id = "tool-123"
                  /\ UsesIn(msgs, 1..Len(msgs), "tool-123") = {}
                  /\ UsesIn(msgs, 1..Len(msgs), "tool-456") # {}
                  /\ IsFunctionResponseAt(c, k)
                  /\ c[k].parts[1].function_response.name = "tool-123"

----------------------------------------------------------------------------
(***************************************************************************)
(* Claims about the property schemas of the simplifier's result, settled   *)
(* under SpecPure.                                                         *)
(***************************************************************************)

(* The first result of the simplifier for an input with properties. *)
Cleaned == pfn = "clean" /\ Len(pout) >= 1

SourceProps == IF is_object(pin) /\ Has(pin.v, "properties")
                  /\ is_object(pin.v["properties"])
               THEN pin.v["properties"].v ELSE EmptyMap

(* The properties a property schema of the result was given from a nested  *)
(* object, with the source properties they were made from.                 *)
NestedOut(out_prop) == out_prop.v["properties"].v
NestedSource(src_prop) == src_prop.v["properties"].v

(* The type the claim gives a property: the source's single value, the     *)
(* first of its array of types, "string" without a source type.            *)
RECURSIVE TypedAsClaimed(_, _)
TypedAsClaimed(src, out) ==
    \A p \in DOMAIN out :
        /\ Has(out[p].v, "type")
        /\ out[p].v["type"] =
              (IF ~Has(src[p].v, "type") THEN JStr("string")
               ELSE IF is_array(src[p].v["type"]) THEN src[p].v["type"].v[1]
               ELSE src[p].v["type"])
        /\ Has(out[p].v, "properties") =>
              TypedAsClaimed(NestedSource(src[p]), NestedOut(out[p]))

(* C26: every property schema in the simplifier's result, nested ones      *)
(* included, has a type key: the source type when that is a single value,  *)
(* its first element when it is an array of types, "string" when the       *)
(* source property has no type.                                            *)
C26_EveryPropertyTyped ==
    Cleaned => TypedAsClaimed(SourceProps, pout[1].v["properties"].v)

PropertyKeys == {"type", "description", "enum", "items", "properties", "required"}
ItemsKeys    == {"type", "description", "enum"}

RECURSIVE OnlySupportedKeys(_)
OnlySupportedKeys(out) ==
    \A p \in DOMAIN out :
        /\ is_object(out[p])
        /\ DOMAIN out[p].v \subseteq PropertyKeys
        /\ Has(out[p].v, "items") =>
              /\ is_object(out[p].v["items"])
              /\ DOMAIN out[p].v["items"].v \subseteq ItemsKeys
        /\ Has(out[p].v, "properties") =>
              /\ is_object(out[p].v["properties"])
              /\ OnlySupportedKeys(NestedOut(out[p]))

(* C27: the simplifier drops the unsupported keys at every depth: its      *)
(* result has only type, properties and required at the top; every         *)
(* property schema, those taken over from nested objects included, has     *)
(* keys only among type, description, enum, items, properties and          *)
(* required; every items schema has keys only among type, description and  *)
(* enum.  This holds for each result, the result of a second application   *)
(* included.                                                               *)
C27_UnsupportedKeysDropped ==
    pfn = "clean" =>
        \A k \in 1..Len(pout) :
            /\ DOMAIN pout[k].v = {"type", "properties", "required"}
            /\ is_object(pout[k].v["properties"])
            /\ OnlySupportedKeys(pout[k].v["properties"].v)

(* A schema with metadata at the top, an additional-properties flag on a   *)
(* nested object, and a numeric constraint in the items of the property    *)
(* nested in it; all of them are gone from the result.                     *)
C27_Witness ==
    /\ Cleaned
    /\ is_object(pin)
    /\ Has(pin.v, "schema")
    /\ Has(SourceProps, "p")
    /\ Has(SourceProps["p"].v, "additionalProperties")
    /\ Has(SourceProps["p"].v, "properties")
    /\ SourceProps["p"].v["properties"].v["q"] =
          JObj([type |-> JStr("array"),
                items |-> JObj([type |-> JStr("integer"), minimum |-> JNum(1),
                                description |-> JStr("an item")]),
                description |-> JStr("Path to file"),
                additionalProperties |-> JBool(FALSE),
                exclusiveMinimum |-> JBool(TRUE)])
    /\ pout[1].v["properties"].v["p"].v["properties"].v["q"] =
          JObj([type |-> JStr("array"),
                items |-> JObj([type |-> JStr("integer"),
                                description |-> JStr("an item")]),
                description |-> JStr("Path to file")])

(* The items the claim gives an array-typed property. *)
ItemsAsClaimed(src_prop) ==
    IF Has(src_prop.v, "items") /\ is_object(src_prop.v["items"])
    THEN clean_array_items(src_prop.v["items"])
    ELSE JObj("type" :> JStr("string"))

RECURSIVE ArraysHaveItems(_, _)
ArraysHaveItems(src, out) ==
    \A p \in DOMAIN out :
        /\ (Has(out[p].v, "type") /\ out[p].v["type"] = JStr("array")) =>
              /\ Has(out[p].v, "items")
              /\ out[p].v["items"] = ItemsAsClaimed(src[p])
        /\ Has(out[p].v, "properties") =>
              ArraysHaveItems(NestedSource(src[p]), NestedOut(out[p]))

(* C28: every property of the simplifier's result whose resolved type is   *)
(* "array", also when the source type was an array of types beginning      *)
(* with "array", has an items key: the one-level simplification of the     *)
(* source items, or {type: "string"} when the source has no items or       *)
(* items that are not an object.                                           *)
C28_ArraysHaveItems ==
    Cleaned => ArraysHaveItems(SourceProps, pout[1].v["properties"].v)

----------------------------------------------------------------------------
(***************************************************************************)
(* Claim about split_text_into_chunks, settled under SpecPure.             *)
(***************************************************************************)

(* The chunks put together again, in order. *)
RECURSIVE Concatenated(_)
Concatenated(chunks) ==
    IF chunks = <<>> THEN <<>> ELSE Head(chunks) \o Concatenated(Tail(chunks))

(* C30: split_text_into_chunks loses and reorders nothing: for every text  *)
(* and every chunk_size >= 1 the chunks concatenated in order are the      *)
(* text, every chunk but the last has exactly chunk_size characters, the   *)
(* last has between 1 and chunk_size, and the empty text gives the single  *)
(* empty chunk.                                                            *)
C30_ChunksPartitionText ==
    (pfn = "split" /\ pout # <<>> /\ pin.chunk_size >= 1) =>
        LET chunks == pout[1]
        IN  /\ Concatenated(chunks) = pin.text
            /\ Len(chunks) >= 1
            /\ \A i \in 1..(Len(chunks) - 1) : Len(chunks[i]) = pin.chunk_size
            /\ pin.text # <<>> =>
                  (Len(Last(chunks)) >= 1 /\ Len(Last(chunks)) <= pin.chunk_size)
            /\ pin.text = <<>> => chunks = << <<>> >>

(* Five characters in chunks of two: two full chunks and a rest of one. *)
C30_Witness ==
    /\ pfn = "split"
    /\ pin = [text |-> <<"a", "b", "b", "a", "b">>, chunk_size |-> 2]
    /\ pout = << << <<"a", "b">>, <<"b", "a">>, <<"b">> >> >>

(* A length that is a multiple of the chunk size leaves no empty chunk. *)
C30_WitnessExact ==
    /\ pfn = "split"
    /\ pin = [text |-> <<"a", "b", "b", "a">>, chunk_size |-> 2]
    /\ pout = << << <<"a", "b">>, <<"b", "a">> >> >>

====
